---- MODULE Spec2Model ----
(***************************************************************************)
(* update.py of javascript-zoo: the markdown metadata parser and writer,   *)
(* and the table, badge and conformance renderers, as operations on the    *)
(* text of one markdown file; and do_engine_data, which merges the         *)
(* markdown, dist and bench files of a checkout into the output rows.      *)
(*                                                                         *)
(* Text representation.  A file is a sequence of lines as readlines()      *)
(* returns them; a line is a sequence of tokens, each a string.  The       *)
(* characters the code tests for (a space, a newline, the '*' of a list    *)
(* line, the ':' of a label, the '#' of a heading, the separators that may *)
(* stand between a URL and its badges) are tokens of their own; a URL, a   *)
(* badge block, the fixed parts of a marker comment and every other run of *)
(* characters are one token each.  All documents and all generated lines   *)
(* are built this way, so two lines are the same text exactly when they    *)
(* are the same token sequence, and str.index, strip, startswith and the   *)
(* regular expressions of the code are computed on tokens, with character  *)
(* offsets obtained from the token lengths.                                *)
(***************************************************************************)
EXTENDS Integers, Sequences, FiniteSets, TLC

VARIABLES
  file,        \* the lines of the markdown file on disk
  filename,    \* its name
  parsed,      \* the MDParse of the last parse_md_metadata call
  emitted,     \* rec()'s traversal in the last write: <<item, indent>> pairs
  err,         \* the uncaught exception that ended the last operation
  wrote,       \* whether the last operation opened the file for writing
  ops,         \* the operations run so far
  prev,        \* the file as the last operation found it
  data,        \* merged output rows handed to update_tables
  conformance, \* conformance record handed to update_conformance
  results,     \* the lines of the engine's conformance results file
  checkout,    \* the markdown, dist and bench files do_engine_data reads
  engines_data \* the rows do_engine_data returns and writes to its json file

vars ==
  <<file, filename, parsed, emitted, err, wrote, ops, prev, data, conformance, results,
    checkout, engines_data>>

----------------------------------------------------------------------------
(* Bounds of the model *)

MaxItems == 3
MaxRuns == 2

----------------------------------------------------------------------------
(* str helpers on token sequences *)

NL == "\n"
SP == " "
Whitespace == {SP, NL, "\t"}

Max2(a, b) == IF a >= b THEN a ELSE b
Min2(a, b) == IF a <= b THEN a ELSE b
SetMax(S) == CHOOSE x \in S : \A y \in S : y <= x
SetMin(S) == CHOOSE x \in S : \A y \in S : x <= y

RECURSIVE LStrip(_)
LStrip(s) == IF s # <<>> /\ Head(s) \in Whitespace THEN LStrip(Tail(s)) ELSE s

RECURSIVE RStrip(_)
RStrip(s) ==
  IF s # <<>> /\ s[Len(s)] \in Whitespace THEN RStrip(SubSeq(s, 1, Len(s) - 1)) ELSE s

Strip(s) == LStrip(RStrip(s))

RECURSIVE TextLen(_)
TextLen(s) == IF s = <<>> THEN 0 ELSE Len(Head(s)) + TextLen(Tail(s))

RECURSIVE Cat(_)
Cat(s) == IF s = <<>> THEN "" ELSE Head(s) \o Cat(Tail(s))

StartsWith(s, p) == Len(s) >= Len(p) /\ SubSeq(s, 1, Len(p)) = p

\* Position (1-based, in tokens) of the first occurrence of p in s; 0 if none.
Find(s, p) ==
  LET hits == {i \in 1..(Len(s) - Len(p) + 1) : SubSeq(s, i, i + Len(p) - 1) = p}
  IN IF hits = {} THEN 0 ELSE SetMin(hits)

Contains(s, p) == Find(s, p) # 0

\* s.index(p): the character offset of the first occurrence of p in s.
Index(s, p) == TextLen(SubSeq(s, 1, Find(s, p) - 1))

Spaces(n) == [i \in 1..n |-> SP]

RECURSIVE Flatten(_)
Flatten(ss) == IF ss = <<>> THEN <<>> ELSE Head(ss) \o Flatten(Tail(ss))

\* readlines() of the text that writelines(lines) leaves in the file: the text
\* is cut after every newline, so a line without its newline runs on into the
\* next one. (No line holds a newline before its end.)
EndsLine(line) == line # <<>> /\ line[Len(line)] = NL
ReadLines(lines) ==
  LET starts == {i \in 1..Len(lines) : i = 1 \/ EndsLine(lines[i - 1])}
      start(k) == CHOOSE i \in starts : Cardinality({j \in starts : j < i}) = k - 1
      stop(k) == IF k = Cardinality(starts) THEN Len(lines) ELSE start(k + 1) - 1
  IN SelectSeq([k \in 1..Cardinality(starts) |-> Flatten(SubSeq(lines, start(k), stop(k)))],
               LAMBDA line : line # <<>>)

----------------------------------------------------------------------------
(* Field Registry *)

METADATA_MAP ==
  << "Homepage", "NPM", "Repository", "Branch", "GitHub", "Sources", "LOC",
     "Language", "License", "Org", "Standard", "Years",
     "Ancestor", "Ancestors", "Fork", "Forks", "Predecessor", "Predecessors",
     "Successor", "Successors",
     "Type", "Features", "Parser", "Runtime platform", "Interpreter", "JIT",
     "GC", "Regex engine", "DLL" >>

\* METADATA_MAP.get(key): the 0-based position of key, None as -1.
MapGet(key) ==
  LET hits == {i \in 1..Len(METADATA_MAP) : METADATA_MAP[i] = key}
  IN IF hits = {} THEN -1 ELSE SetMin(hits) - 1

----------------------------------------------------------------------------
(* parse_md_metadata *)

NoErr == [kind |-> "none", file |-> "", no |-> -1, line |-> <<>>]
Fatal(kind, fname, no, line) == [kind |-> kind, file |-> fname, no |-> no, line |-> line]

NoParse == [ok |-> FALSE, err |-> NoErr, metadata |-> <<>>, tree |-> <<>>]
ParseFail(e) == [ok |-> FALSE, err |-> e, metadata |-> <<>>, tree |-> <<>>]

\* lines = [s.rstrip() for s in open(filename).readlines()] + ['']
ReadStripped(f) == [i \in 1..(Len(f) + 1) |-> IF i <= Len(f) THEN RStrip(f[i]) ELSE <<>>]

\* ': ' in text, text.index(': ')
ColonSp == <<":", SP>>
HasColon(text) == Contains(text, ColonSp)
ColonIndex(text) == Index(text, ColonSp)

\* text[:text.index(': ')] and text[text.index(': ')+1:].lstrip()
TitleOf(text) == SubSeq(text, 1, Find(text, ColonSp) - 1)
ValueOf(text) == LStrip(SubSeq(text, Find(text, ColonSp) + 1, Len(text)))

\* re.sub(': .*', '', text).strip()
LabelKey(text) == Cat(Strip(IF HasColon(text) THEN TitleOf(text) ELSE text))

\* The parser without its parity check.
BadIndent_Never(indent) == FALSE

\* assert indent % 2 == 0
BadIndent(indent) == indent % 2 # 0

\* The parent loop: parent = parsed; while indent > 0: assert len(parsed.tree) > 0;
\* parent = parsed.tree[-1]; indent -= 2.  0 is the MDParse itself, -1 the failed assert.
RECURSIVE ResolveParent(_, _, _)
ResolveParent(parent, indent, tree) ==
  IF indent > 0
  THEN IF Len(tree) = 0 THEN -1 ELSE ResolveParent(tree[Len(tree)], indent - 2, tree)
  ELSE parent

\* One MDItem; parent is the index in metadata of the item whose tree holds it.
MDItem(line_no, text, indent, map_key, parent) ==
  [line_no |-> line_no, text |-> text, indent |-> indent, map_key |-> map_key,
   parent |-> parent, mapping |-> MapGet(map_key)]

\* The list loop; no is the 0-based index into lines.
RECURSIVE ParseList(_, _, _, _, _)
ParseList(lines, no, metadata, tree, fname) ==
  IF ~(no < Len(lines) /\ lines[no + 1] # <<>>)
  THEN [ok |-> TRUE, err |-> NoErr, metadata |-> metadata, tree |-> tree]
  ELSE
    LET line == lines[no + 1]
    IN IF ~StartsWith(Strip(line), <<"*", SP>>)
       THEN ParseFail(Fatal("expected metadata list line", fname, no, line))
       ELSE
         LET indent == Index(line, <<"*">>)
             text == Strip(SubSeq(line, Find(line, <<"*">>) + 1, Len(line)))
             parent == ResolveParent(0, indent, tree)
             key == IF parent > 0
                    THEN metadata[parent].map_key \o "/" \o LabelKey(text)
                    ELSE LabelKey(text)
             item == MDItem(no + 1, text, indent, key, parent)
         IN IF BadIndent(indent)
            THEN ParseFail(Fatal("bad indent", fname, no, line))
            ELSE IF parent = -1
            THEN ParseFail(Fatal("AssertionError", fname, -1, <<>>))
            ELSE ParseList(lines, no + 1, Append(metadata, item),
                           IF parent = 0 THEN Append(tree, Len(metadata) + 1) ELSE tree,
                           fname)

\* The summary loop: lines up to the first empty or list line.
RECURSIVE SkipSummary(_, _)
SkipSummary(lines, no) ==
  IF no < Len(lines) /\ lines[no + 1] # <<>> /\ ~StartsWith(Strip(lines[no + 1]), <<"*">>)
  THEN SkipSummary(lines, no + 1)
  ELSE no

ParseMdMetadata(f, fname) ==
  LET lines == ReadStripped(f)
  IN IF ~(Len(lines) >= 3 /\ StartsWith(lines[1], <<"#", SP>>) /\ lines[2] = <<>>)
     THEN ParseFail(Fatal("missing title", fname, -1, <<>>))
     ELSE IF ~(2 < Len(lines) /\ Len(Strip(lines[3])) > 0
                /\ ~StartsWith(Strip(lines[3]), <<"*">>))
     THEN ParseFail(Fatal("missing summary paragraph", fname, -1, <<>>))
     ELSE
       LET no == SkipSummary(lines, 2)
       IN IF Strip(lines[no + 1]) # <<>>
          THEN ParseFail(Fatal("expected blank line", fname, no, lines[no + 1]))
          ELSE IF no + 1 >= Len(lines)
          THEN ParseFail(Fatal("IndexError", fname, -1, <<>>))
          ELSE IF ~StartsWith(lines[no + 2], <<"*", SP>>)
          THEN ParseFail(Fatal("expected metadata list", fname, no + 1, lines[no + 2]))
          ELSE ParseList(lines, no + 1, <<>>, <<>>, fname)

----------------------------------------------------------------------------
(* write_md_metadata *)

LhsMin == 14
LhsMax == 32

\* A sort key that ranks unregistered items by their line alone.
SortKey_ByLine(item) == IF item.mapping >= 0 THEN item.mapping ELSE item.line_no

\* The sort key of node.tree.sort: metadata_order.get(item.map_key, 1000 + item.line_no)
SortKey(item) == IF item.mapping >= 0 THEN item.mapping ELSE 1000 + item.line_no

\* list.sort is stable: x goes after every element whose key is not greater.
RECURSIVE InsertSorted(_, _, _)
InsertSorted(metadata, sorted, x) ==
  IF sorted = <<>> THEN <<x>>
  ELSE IF SortKey(metadata[x]) < SortKey(metadata[Head(sorted)])
       THEN <<x>> \o sorted
       ELSE <<Head(sorted)>> \o InsertSorted(metadata, Tail(sorted), x)

RECURSIVE SortTree(_, _)
SortTree(metadata, tree) ==
  IF tree = <<>> THEN <<>>
  ELSE InsertSorted(metadata, SortTree(metadata, SubSeq(tree, 1, Len(tree) - 1)),
                    tree[Len(tree)])

\* node.tree as the parser built it: the items appended to node, in parse order.
RECURSIVE TreeOf(_, _, _)
TreeOf(metadata, node, from) ==
  IF from > Len(metadata) THEN <<>>
  ELSE (IF metadata[from].parent = node THEN <<from>> ELSE <<>>)
       \o TreeOf(metadata, node, from + 1)

\* A column width without the lower clamp.
LhsWidth_NoLowerClamp(metadata) ==
  LET ws == {4 + metadata[i].indent + ColonIndex(metadata[i].text) :
               i \in {j \in 1..Len(metadata) : HasColon(metadata[j].text)}}
  IN IF ws = {} THEN -1 ELSE Min2(SetMax(ws), LhsMax)

\* lhs_width: None when no item holds ': ' (max() of an empty sequence raises).
LhsWidth(metadata) ==
  LET ws == {4 + metadata[i].indent + ColonIndex(metadata[i].text) :
               i \in {j \in 1..Len(metadata) : HasColon(metadata[j].text)}}
  IN IF ws = {} THEN -1 ELSE Min2(Max2(SetMax(ws), LhsMin), LhsMax)

\* rec(): the nodes in the order they are yielded, each with its indent string.
RECURSIVE Rec(_, _, _)
RECURSIVE RecAll(_, _, _)
Rec(metadata, node, indent) ==
  (IF node # 0 THEN << <<node, indent>> >> ELSE <<>>)
  \o RecAll(metadata, SortTree(metadata, TreeOf(metadata, node, 1)),
            IF node # 0 THEN indent \o <<SP, SP>> ELSE indent)
RecAll(metadata, tree, indent) ==
  IF tree = <<>> THEN <<>>
  ELSE Rec(metadata, Head(tree), indent) \o RecAll(metadata, Tail(tree), indent)

\* The line rec() yields for one node.
Reformat(item, indent, lhs_width) ==
  IF HasColon(item.text)
  THEN LET lhs == indent \o <<"*", SP>> \o TitleOf(item.text) \o <<":", SP>>
           pad == IF TextLen(lhs) < lhs_width
                  THEN Spaces(lhs_width - TextLen(lhs)) ELSE <<>>
       IN lhs \o pad \o ValueOf(item.text) \o <<NL>>
  ELSE indent \o <<"*", SP>> \o item.text \o <<NL>>

\* A splice that also drops the line after the list.
Splice_DropNext(f, metadata, reformatted) ==
  LET start == SetMin({metadata[i].line_no - 1 : i \in 1..Len(metadata)})
      end == SetMax({metadata[i].line_no : i \in 1..Len(metadata)})
  IN SubSeq(f, 1, start) \o reformatted \o SubSeq(f, end + 2, Len(f))

\* lines[:start] + reformatted + lines[end:]
Splice(f, metadata, reformatted) ==
  LET start == SetMin({metadata[i].line_no - 1 : i \in 1..Len(metadata)})
      end == SetMax({metadata[i].line_no : i \in 1..Len(metadata)})
  IN SubSeq(f, 1, start) \o reformatted \o SubSeq(f, end + 1, Len(f))

\* write_md_metadata(filename, parsed): the traversal, the new text, the outcome.
WriteMdMetadataF(f, p, fname) ==
  LET lhs_width == LhsWidth(p.metadata)
      order == Rec(p.metadata, 0, <<>>)
      reformatted == [k \in 1..Len(order) |->
                        Reformat(p.metadata[order[k][1]], order[k][2], lhs_width)]
      lines == Splice(f, p.metadata, reformatted)
  IN IF lhs_width = -1
     THEN [file |-> f, emitted |-> <<>>, wrote |-> FALSE,
           err |-> Fatal("ValueError", fname, -1, <<>>)]
     ELSE [file |-> lines, emitted |-> order, wrote |-> (lines # f), err |-> NoErr]

----------------------------------------------------------------------------
(* update_md_shields, get_shields_for_repo *)

\* The URLs that occur in the documents; a URL is one token, UrlText(u).
RepoUrls ==
  { [scheme |-> "https", host |-> "github.com", path |-> <<"u", "r">>,
     git |-> FALSE, slash |-> FALSE],
    [scheme |-> "http", host |-> "gitlab.com", path |-> <<"u", "r">>,
     git |-> TRUE, slash |-> FALSE],
    [scheme |-> "https", host |-> "codeberg.org", path |-> <<"u", "r">>,
     git |-> FALSE, slash |-> TRUE],
    [scheme |-> "https", host |-> "example.com", path |-> <<"u", "r">>,
     git |-> FALSE, slash |-> FALSE],
    [scheme |-> "https", host |-> "github.com", path |-> <<"u", "r", "issues">>,
     git |-> FALSE, slash |-> FALSE] }

RECURSIVE JoinStr(_, _)
JoinStr(ss, sep) ==
  IF ss = <<>> THEN ""
  ELSE IF Len(ss) = 1 THEN ss[1]
  ELSE ss[1] \o sep \o JoinStr(Tail(ss), sep)

UrlText(u) ==
  u.scheme \o "://" \o u.host \o "/" \o JoinStr(u.path, "/")
  \o (IF u.git THEN ".git" ELSE "") \o (IF u.slash THEN "/" ELSE "")

\* https?://(github\.com|gitlab\.com|codeberg.org)/([^/]+)/([^/]+?)(.git)?/?$
ShieldHosts == {"github.com", "gitlab.com", "codeberg.org"}
RepoMatch(repo_link) ==
  {u \in RepoUrls : UrlText(u) = repo_link /\ u.host \in ShieldHosts /\ Len(u.path) = 2}

ShieldsHtml(svc, user, repo, extra) ==
  "<img src=\"https://img.shields.io/" \o svc \o "/stars/" \o user \o "/" \o repo
  \o "?label=&style=flat-square" \o extra \o "\" alt=\"Stars\" title=\"Stars\">"
  \o "<img src=\"https://img.shields.io/" \o svc \o "/last-commit/" \o user \o "/"
  \o repo \o "?label=&style=flat-square" \o extra
  \o "\" alt=\"Last commit\" title=\"Last commit\">"

GetShieldsForRepo(repo_link, fname) ==
  IF RepoMatch(repo_link) = {} THEN ""
  ELSE
    LET m == CHOOSE u \in RepoMatch(repo_link) : TRUE
        svc == IF m.host = "github.com" THEN "github"
               ELSE IF m.host = "gitlab.com" THEN "gitlab" ELSE "gitea"
        extra == IF m.host \in {"github.com", "gitlab.com"} THEN ""
                 ELSE "&gitea_url=https://" \o m.host
        html == ShieldsHtml(svc, m.path[1], m.path[2], extra)
    IN IF fname = "README.md"
       THEN "<div class=\"shields\">" \o html \o "</div>"
       ELSE "<span class=\"shields\">" \o html \o "</span>"

\* A shields block (<div|span class="shields"> ... </div|span>) is one token:
\* a hand-written one, or one that get_shields_for_repo made.
OldShields == {"<span class=\"shields\">old</span>", "<div class=\"shields\">old</div>"}
FileNames == {"README.md", "parsers/acorn.md", "engines/x.md"}
ShieldsBlocks ==
  OldShields \cup
  ({GetShieldsForRepo(UrlText(u), fn) : u \in RepoUrls, fn \in FileNames} \ {""})

\* (https?://[^()>"' ]+)([()>"' ]*)(<(?:div|span) class="shields">.*?</(?:div|span)>)
UrlSeps == {"(", ")", ">", "\"", "'", SP}
IsUrl(tok) == \E u \in RepoUrls : UrlText(u) = tok

RECURSIVE SkipSeps(_, _)
SkipSeps(line, j) ==
  IF j <= Len(line) /\ line[j] \in UrlSeps THEN SkipSeps(line, j + 1) ELSE j

\* re.findall over one line: the (url, sep, old) groups, left to right.
RECURSIVE ShieldsMatches(_, _)
ShieldsMatches(line, i) ==
  IF i > Len(line) THEN <<>>
  ELSE IF IsUrl(line[i])
          /\ SkipSeps(line, i + 1) <= Len(line)
          /\ line[SkipSeps(line, i + 1)] \in ShieldsBlocks
       THEN << [url |-> line[i],
                sep |-> SubSeq(line, i + 1, SkipSeps(line, i + 1) - 1),
                old |-> line[SkipSeps(line, i + 1)]] >>
            \o ShieldsMatches(line, SkipSeps(line, i + 1) + 1)
       ELSE ShieldsMatches(line, i + 1)

\* str.replace(old, new) on token sequences.
RECURSIVE Replace(_, _, _)
Replace(s, old, new) ==
  IF s = <<>> THEN <<>>
  ELSE IF StartsWith(s, old)
       THEN new \o Replace(SubSeq(s, Len(old) + 1, Len(s)), old, new)
       ELSE <<Head(s)>> \o Replace(Tail(s), old, new)

\* The loop over the matches of one line.
RECURSIVE ReplaceShields(_, _, _)
ReplaceShields(line, matches, fname) ==
  IF matches = <<>> THEN line
  ELSE
    LET m == Head(matches)
        shields == GetShieldsForRepo(m.url, fname)
    IN ReplaceShields(
         IF shields # ""
         THEN Replace(line, <<m.url>> \o m.sep \o <<m.old>>,
                      <<m.url>> \o m.sep \o <<shields>>)
         ELSE line,
         Tail(matches), fname)

\* update_md_shields(filename): the new lines and whether the file is written.
UpdateMdShieldsF(f, fname) ==
  LET lines == [i \in 1..Len(f) |-> ReplaceShields(f[i], ShieldsMatches(f[i], 1), fname)]
  IN [file |-> lines, wrote |-> (lines # f), err |-> NoErr]

----------------------------------------------------------------------------
(* parse_conformance_data: the per-engine record built from a results file *)

\* A dict is a sequence of <<key, value>> pairs in insertion order.
DictHas(d, k) == \E i \in 1..Len(d) : d[i][1] = k
DictGet(d, k, default) ==
  IF DictHas(d, k) THEN d[SetMin({i \in 1..Len(d) : d[i][1] = k})][2] ELSE default
DictPut(d, k, v) ==
  IF DictHas(d, k)
  THEN [i \in 1..Len(d) |-> IF d[i][1] = k THEN <<k, v>> ELSE d[i]]
  ELSE Append(d, <<k, v>>)
DictKeys(d) == [i \in 1..Len(d) |-> d[i][1]]

\* Scores are kept in units of 0.0001: round(p / q, 4) is the integer nearest
\* to 10000 * p / q, a tie going to the even one.
ScoreOne == 10000
Round4(p, q) ==
  LET k == (p * ScoreOne) \div q
      r == (p * ScoreOne) % q
  IN IF 2 * r > q THEN k + 1
     ELSE IF 2 * r < q THEN k
     ELSE IF k % 2 = 0 THEN k ELSE k + 1

\* re.match('^(crashed|panic:.*)', result)
IsCrash(result) == result \in {"crashed", "panic: oops"}

\* '^es[1-5]$' and '^kangax-es20..$' on the directory names of the results
EsDirs == {"es1", "es2", "es3", "es4", "es5"}
KangaxYearDirs == {"kangax-es2016", "kangax-es2017"}

\* The loop over the lines of the results file.  An entry of tests is one line,
\* or a run of t.count consecutive lines of one directory and weight whose result
\* is OK: such lines add their weight to dir_total and dir_pass and nothing else
\* that is read later.
RECURSIVE TallyTests(_, _)
TallyTests(tests, acc) ==
  IF tests = <<>> THEN acc
  ELSE
    LET t == Head(tests)
        ok == t.result = "OK"
    IN TallyTests(Tail(tests),
         [dir_total |-> DictPut(acc.dir_total, t.dir,
                                DictGet(acc.dir_total, t.dir, 0) + t.weight * t.count),
          dir_pass |-> IF ok
                       THEN DictPut(acc.dir_pass, t.dir,
                                    DictGet(acc.dir_pass, t.dir, 0) + t.weight * t.count)
                       ELSE acc.dir_pass,
          failing_by_dir |-> IF ok THEN acc.failing_by_dir
                             ELSE DictPut(acc.failing_by_dir, t.dir,
                                    Append(DictGet(acc.failing_by_dir, t.dir, <<>>), t)),
          crashes |-> acc.crashes + (IF IsCrash(t.result) THEN 1 ELSE 0),
          crashes_by_dir |-> IF IsCrash(t.result)
                             THEN DictPut(acc.crashes_by_dir, t.dir,
                                          DictGet(acc.crashes_by_dir, t.dir, 0) + 1)
                             ELSE acc.crashes_by_dir])

RECURSIVE SumOver(_, _, _)
SumOver(d, dirs, S) ==
  IF dirs = <<>> THEN 0
  ELSE (IF Head(dirs) \in S THEN DictGet(d, Head(dirs), 0) ELSE 0)
       + SumOver(d, Tail(dirs), S)

\* agg_score(name, dir_regex)
AggScore(scores, tally, name, S) ==
  LET p == SumOver(tally.dir_pass, DictKeys(tally.dir_total), S)
      q == SumOver(tally.dir_total, DictKeys(tally.dir_total), S)
  IN IF q > 0 THEN DictPut(scores, name, Round4(p, q)) ELSE scores

ParseConformanceData(tests, path) ==
  LET tally == TallyTests(tests, [dir_total |-> <<>>, dir_pass |-> <<>>,
                                  failing_by_dir |-> <<>>, crashes |-> 0,
                                  crashes_by_dir |-> <<>>])
      dirs == DictKeys(tally.dir_total)
      by_dir == [i \in 1..Len(dirs) |->
                   <<dirs[i], Round4(DictGet(tally.dir_pass, dirs[i], 0),
                                     DictGet(tally.dir_total, dirs[i], 0))>>]
      scores == AggScore(AggScore(by_dir, tally, "es1-es5", EsDirs),
                         tally, "kangax-es2016plus", KangaxYearDirs)
  IN [failing_by_dir |-> tally.failing_by_dir,
      crashes |-> tally.crashes,
      crashes_by_dir |-> tally.crashes_by_dir,
      conformance_results_path |-> path,
      conformance_scores |-> scores]

----------------------------------------------------------------------------
(* update_conformance *)

\* '%.0f' % x rounds the double x to the nearest integer, a tie to the even one;
\* 54.5 and 57.5 are not ties as doubles (0.545 * 100 and 0.575 * 100 are 54.50...01
\* and 57.49...9).
PercentCap == 9900
Percent(score) ==
  LET k == score \div 100
      r == score % 100
  IN IF r > 50 THEN k + 1
     ELSE IF r < 50 THEN k
     ELSE IF k = 54 THEN 55
     ELSE IF k = 57 THEN 57
     ELSE IF k % 2 = 0 THEN k ELSE k + 1

\* format_score
FormatScore(score) ==
  IF score = ScoreOne THEN "100%"
  ELSE ToString(Percent(Min2(score, PercentCap))) \o "%"

\* dir_name.replace('kangax-', '').replace('es', 'ES').replace('intl', 'Intl')
\*         .replace('next', 'Next')
DisplayName(dir_name) ==
  CASE dir_name = "es1" -> "ES1"
    [] dir_name = "es3" -> "ES3"
    [] dir_name = "es5" -> "ES5"
    [] dir_name = "kangax-es6" -> "ES6"
    [] dir_name = "kangax-es2016" -> "ES2016"
    [] dir_name = "kangax-es2017" -> "ES2017"
    [] dir_name = "kangax-next" -> "Next"
    [] dir_name = "kangax-intl" -> "Intl"

\* html.escape(result, quote=False) on the result strings of the model
HtmlEscape(result) == IF result = "a<b" THEN "a&lt;b" ELSE result

ConformanceHeading == <<"#", "#", SP, "Conformance", NL>>
TextLine(text) == <<text, NL>>

FailLimit == 20

\* The <pre> body cut one test earlier.
RECURSIVE FailingLines_CutAtLimit(_, _)
FailingLines_CutAtLimit(failing_tests, i) ==
  IF i >= Len(failing_tests) THEN <<>>
  ELSE IF i >= FailLimit THEN << TextLine("...") >>
  ELSE << TextLine("<a href=\"../conformance/" \o failing_tests[i + 1].test \o "\">"
                   \o failing_tests[i + 1].base \o "</a>: "
                   \o HtmlEscape(failing_tests[i + 1].result)) >>
       \o FailingLines_CutAtLimit(failing_tests, i + 1)

\* The <pre> body: one link per failing test, cut after the test with index 20.
RECURSIVE FailingLines(_, _)
FailingLines(failing_tests, i) ==
  IF i >= Len(failing_tests) THEN <<>>
  ELSE IF i > FailLimit THEN << TextLine("...") >>
  ELSE << TextLine("<a href=\"../conformance/" \o failing_tests[i + 1].test \o "\">"
                   \o failing_tests[i + 1].base \o "</a>: "
                   \o HtmlEscape(failing_tests[i + 1].result)) >>
       \o FailingLines(failing_tests, i + 1)

\* The list item(s) of one category.
DirLines(c, dir_name) ==
  LET name == DisplayName(dir_name)
      failing_tests == DictGet(c.failing_by_dir, dir_name, <<>>)
      score == DictGet(c.conformance_scores, dir_name, 0)
      score_str == FormatScore(score)
      n == DictGet(c.crashes_by_dir, dir_name, 0)
      crashes == IF n = 0 THEN ""
                 ELSE IF n = 1 THEN ", <b>1 crash</b>"
                 ELSE ", <b>" \o ToString(n) \o " crashes</b>"
  IN IF score = ScoreOne
     THEN << TextLine("<li>" \o name \o ": " \o score_str \o "</li>") >>
     ELSE IF score < ScoreOne \div 2
     THEN << TextLine("<li>" \o name \o ": " \o score_str \o crashes \o "</li>") >>
     ELSE << TextLine("<li>" \o name \o ": " \o score_str \o crashes \o "<pre>") >>
          \o FailingLines(failing_tests, 0)
          \o << TextLine("</pre></li>") >>

\* The sections dict: headline -> directories.
EsHeadline(scores) == "ES1-ES5: " \o FormatScore(DictGet(scores, "es1-es5", 0))
KangaxHeadline(scores) ==
  "compat-table: ES6 " \o FormatScore(DictGet(scores, "kangax-es6", 0))
  \o (IF DictHas(scores, "kangax-es2016plus")
      THEN ", ES2016+ " \o FormatScore(DictGet(scores, "kangax-es2016plus", 0)) ELSE "")
  \o (IF DictHas(scores, "kangax-next")
      THEN ", Next " \o FormatScore(DictGet(scores, "kangax-next", 0)) ELSE "")
  \o (IF DictHas(scores, "kangax-intl")
      THEN ", Intl " \o FormatScore(DictGet(scores, "kangax-intl", 0)) ELSE "")

SelectSeq2(s, S) == SelectSeq(s, LAMBDA x : x \in S)

Sections(scores) ==
  (IF DictHas(scores, "es1-es5")
   THEN << [headline |-> EsHeadline(scores), es |-> TRUE,
            dirs |-> <<"es1", "es3", "es5">>] >>
   ELSE <<>>)
  \o (IF DictHas(scores, "kangax-es6")
      THEN << [headline |-> KangaxHeadline(scores), es |-> FALSE,
               dirs |-> <<"kangax-es6">> \o SelectSeq2(DictKeys(scores), KangaxYearDirs)
                        \o <<"kangax-next", "kangax-intl">>] >>
      ELSE <<>>)

RECURSIVE SectionLines(_, _, _)
SectionLines(c, sections, lines) ==
  IF sections = <<>> THEN lines
  ELSE
    LET sec == Head(sections)
        section_dirs == SelectSeq(sec.dirs,
                                  LAMBDA d : DictHas(c.conformance_scores, d))
        sep == IF lines[Len(lines)] # <<NL>> THEN << <<NL>> >> ELSE <<>>
        based == IF sec.es
                 THEN << TextLine("<li>Based on this repository's basic test suite. "
                                  \o "<a href=\"../" \o c.conformance_results_path
                                  \o "\">Full log</a>.</li>") >>
                 ELSE <<>>
    IN IF Len(section_dirs) = 0 THEN SectionLines(c, Tail(sections), lines)
       ELSE SectionLines(c, Tail(sections),
              lines \o sep
              \o << TextLine("<details><summary>" \o sec.headline \o "</summary><ul>") >>
              \o based
              \o Flatten([i \in 1..Len(section_dirs) |-> DirLines(c, section_dirs[i])])
              \o << TextLine("</ul></details>") >>)

\* conformance_lines: the generated section.
ConformanceLines(c) ==
  SectionLines(c, Sections(c.conformance_scores), <<ConformanceHeading, <<NL>>>>)
  \o (IF c.crashes > 0
      THEN << <<NL>>,
              TextLine("<U+1F4A5> **" \o ToString(c.crashes)
                       \o (IF c.crashes = 1 THEN " crash" ELSE " crashes")
                       \o " during testing**") >>
      ELSE <<>>)

\* The loop over orig_lines: block is conformance_lines, <<>> once it is used (None).
RECURSIVE ReplaceSection(_, _, _, _, _)
ReplaceSection(orig_lines, i, skip, block, lines) ==
  IF i > Len(orig_lines) THEN [lines |-> lines, block |-> block]
  ELSE
    LET line == orig_lines[i]
    IN IF skip
       THEN IF StartsWith(line, <<"#">>)
            THEN ReplaceSection(orig_lines, i + 1, FALSE, block, Append(lines, line))
            ELSE ReplaceSection(orig_lines, i + 1, TRUE, block, lines)
       ELSE IF block # <<>> /\ line = block[1]
            THEN ReplaceSection(orig_lines, i + 1, TRUE, <<>>, lines \o block)
            ELSE ReplaceSection(orig_lines, i + 1, FALSE, block, Append(lines, line))

\* assert len(failing_tests) == 0 for a category whose score is 1
FullScoreWithFailures(c) ==
  \E k \in 1..Len(Sections(c.conformance_scores)) :
    \E i \in 1..Len(Sections(c.conformance_scores)[k].dirs) :
      LET d == Sections(c.conformance_scores)[k].dirs[i]
      IN /\ DictHas(c.conformance_scores, d)
         /\ DictGet(c.conformance_scores, d, 0) = ScoreOne
         /\ DictGet(c.failing_by_dir, d, <<>>) # <<>>

\* update_conformance(filename, conformance)
UpdateConformanceF(f, c, fname) ==
  LET r == ReplaceSection(f, 1, FALSE, ConformanceLines(c), <<>>)
      lines == IF r.block # <<>>
               THEN r.lines \o (IF r.lines[Len(r.lines)] # <<NL>> THEN << <<NL>> >> ELSE <<>>)
                    \o r.block
               ELSE r.lines
  IN IF FullScoreWithFailures(c)
     THEN [file |-> f, wrote |-> FALSE, err |-> Fatal("AssertionError", fname, -1, <<>>)]
     ELSE IF r.block # <<>> /\ r.lines = <<>>
     THEN [file |-> f, wrote |-> FALSE, err |-> Fatal("IndexError", fname, -1, <<>>)]
     ELSE [file |-> ReadLines(lines), wrote |-> (lines # f), err |-> NoErr]

----------------------------------------------------------------------------
(* format_table_columns, format_table *)

\* Strings that are compared or edited character by character (language, id,
\* sort_key) are sequences of one-character strings.
Alphabet ==
  << " ", "+", ",", "-", "0", "1", "2", "3", "4", "5", "6", "7", "8", "9",
     "A", "B", "C", "D", "E", "F", "G", "H", "I", "J", "K", "L", "M", "N", "O", "P",
     "Q", "R", "S", "T", "U", "V", "W", "X", "Y", "Z",
     "a", "b", "c", "d", "e", "f", "g", "h", "i", "j", "k", "l", "m", "n", "o", "p",
     "q", "r", "s", "t", "u", "v", "w", "x", "y", "z" >>
\* The rank of a character in code point order.
Code(ch) == CHOOSE i \in 1..Len(Alphabet) : Alphabet[i] = ch
UpperA == Code("A")
LowerA == Code("a")
\* str.lower()
Lower(chars) ==
  [i \in 1..Len(chars) |->
     IF Code(chars[i]) >= UpperA /\ Code(chars[i]) < UpperA + 26
     THEN Alphabet[Code(chars[i]) - UpperA + LowerA] ELSE chars[i]]

\* a < b on str
RECURSIVE StrLess(_, _)
StrLess(a, b) ==
  IF b = <<>> THEN FALSE
  ELSE IF a = <<>> THEN TRUE
  ELSE IF Code(Head(a)) # Code(Head(b)) THEN Code(Head(a)) < Code(Head(b))
  ELSE StrLess(Tail(a), Tail(b))

\* The nearest integer to n / d, a tie going to the even one ('%.0f', '%.1f').
RoundDiv(n, d) ==
  LET k == n \div d
      r == n % d
  IN IF 2 * r > d THEN k + 1
     ELSE IF 2 * r < d THEN k
     ELSE IF k % 2 = 0 THEN k ELSE k + 1

OneDecimal(tenths) == ToString(tenths \div 10) \o "." \o ToString(tenths % 10)

\* loc_abbr: '%.1fM', '%.0fK', '%.1fK' or the number itself
LocAbbr(loc) ==
  IF loc >= 1000000 THEN OneDecimal(RoundDiv(loc, 100000)) \o "M"
  ELSE IF loc >= 10000 THEN ToString(RoundDiv(loc, 1000)) \o "K"
  ELSE IF loc >= 1000 THEN OneDecimal(RoundDiv(loc, 100)) \o "K"
  ELSE ToString(loc)

\* standard_abbr: the three re.sub calls and the two replace calls, on the
\* standards of the rows below.
StandardAbbr(std) ==
  CASE std = "" -> ""
    [] std = "ESnext" -> "ESnext"
    [] std = "ES5" -> "ES5"
    [] std = "ES2015 (ES6)" -> "ES2015<sup>*</sup>"
    [] std = "ES3 (partial)" -> "ES3<sup>*</sup>"

\* re.sub(', .*', '', lang)
LanguageAbbr(lang) ==
  IF Contains(lang, <<",", " ">>) THEN SubSeq(lang, 1, Find(lang, <<",", " ">>) - 1)
  ELSE lang

\* '%06d' % n
Digits6(n) ==
  IF n >= 0 THEN [i \in 1..6 |-> ToString((n \div (10 ^ (6 - i))) % 10)]
  ELSE <<"-">> \o [i \in 1..5 |-> ToString(((0 - n) \div (10 ^ (5 - i))) % 10)]

pinned == << <<"v", "8">>,
             <<"s", "p", "i", "d", "e", "r", "m", "o", "n", "k", "e", "y">>,
             <<"j", "s", "c">> >>
StarsBase == 999998

\* row['sort_key']; a row without 'github_stars' has github_stars = -1.
sort_key(row) ==
  IF \E i \in 1..Len(pinned) : pinned[i] = row.id
  THEN <<"A", "0", ToString((CHOOSE i \in 1..Len(pinned) : pinned[i] = row.id) - 1)>>
  ELSE Replace(Replace(LanguageAbbr(row.language),
                       <<"T", "y", "p", "e", "S", "c", "r", "i", "p", "t">>,
                       <<"J", "a", "v", "a", "S", "c", "r", "i", "p", "t">>),
               <<"C", "+", "+">>, <<"C">>)
       \o <<" ">> \o Digits6(StarsBase - row.github_stars)
       \o <<" ">> \o Lower(row.id)

\* get_domain(url) on the URLs of the model
HostLabels(host) ==
  CASE host = "github.com" -> <<"github", "com">>
    [] host = "gitlab.com" -> <<"gitlab", "com">>
    [] host = "codeberg.org" -> <<"codeberg", "org">>
    [] host = "example.com" -> <<"example", "com">>
GetDomain(url) ==
  LET host == (CHOOSE u \in RepoUrls : UrlText(u) = url).host
      labels == HostLabels(host)
  IN IF Len(labels) - 1 > 1
     THEN labels[Len(labels) - 1] \o "." \o labels[Len(labels)]
     ELSE host

\* os.path.dirname(filename)
DirName(fname) ==
  CASE fname = "README.md" -> ""
    [] fname = "parsers/acorn.md" -> "parsers"
    [] fname = "engines/x.md" -> "engines"

\* os.path.relpath(<dir>/<file>, os.path.dirname(filename))
RelPath(jsz, fname) ==
  IF DirName(fname) = "" THEN jsz[1] \o "/" \o jsz[2]
  ELSE IF DirName(fname) = jsz[1] THEN jsz[2]
  ELSE "../" \o jsz[1] \o "/" \o jsz[2]

\* row['engine_link']; a key the row lacks is "".
EngineLink(row, fname) ==
  LET link0 == IF row.github # "" THEN row.github ELSE row.repository
      link1 == IF link0 = "" /\ row.homepage # "" THEN row.homepage ELSE link0
      u == CHOOSE x \in RepoUrls : UrlText(x) = link1
      is_repo == u.host = "github.com" /\ Len(u.path) = 2 /\ ~u.slash
      repo_text == IF is_repo THEN u.path[1] \o "/" \o u.path[2] ELSE GetDomain(link1)
      repo_link == IF u.host = "github.com" /\ u.git /\ ~u.slash
                   THEN UrlText([u EXCEPT !.git = FALSE]) ELSE link1
      shields == GetShieldsForRepo(repo_link, "README.md")
      base == "[" \o row.title \o "](" \o RelPath(row.jsz, fname) \o ")"
  IN IF link1 = "" THEN base
     ELSE IF shields # "" THEN base \o "<br>[" \o shields \o "](" \o repo_link \o ")"
     ELSE base \o "<br>([" \o repo_text \o "](" \o repo_link \o "))"

\* The extra columns of one row.
FormatRow(row, fname) ==
  [id |-> Cat(row.id),
   title |-> row.title,
   standard_abbr |-> StandardAbbr(row.standard),
   loc_abbr |-> IF row.loc # 0 THEN LocAbbr(row.loc) ELSE "",
   language_abbr |-> Cat(LanguageAbbr(row.language)),
   sort_key |-> sort_key(row),
   engine_link |-> EngineLink(row, fname)]

\* list.sort(key=...): stable, ascending by sort_key.
RECURSIVE InsertRow(_, _)
InsertRow(sorted, x) ==
  IF sorted = <<>> THEN <<x>>
  ELSE IF StrLess(x.sort_key, sorted[Len(sorted)].sort_key)
       THEN Append(InsertRow(SubSeq(sorted, 1, Len(sorted) - 1), x), sorted[Len(sorted)])
       ELSE Append(sorted, x)

RECURSIVE SortRows(_, _)
SortRows(rows, sorted) ==
  IF rows = <<>> THEN sorted ELSE SortRows(Tail(rows), InsertRow(sorted, Head(rows)))

\* format_table_columns(filename, data)
FormatTableColumns(fname, rows) ==
  SortRows([i \in 1..Len(rows) |-> FormatRow(rows[i], fname)], <<>>)

\* str(row.get(c, ''))
RowGet(row, c) ==
  CASE c = "engine_link" -> row.engine_link
    [] c = "language_abbr" -> row.language_abbr
    [] c = "loc_abbr" -> row.loc_abbr
    [] c = "standard_abbr" -> row.standard_abbr
    [] c = "id" -> row.id
    [] c = "title" -> row.title
    [] OTHER -> ""

RECURSIVE Repeat(_, _)
Repeat(str, n) == IF n = 0 THEN "" ELSE str \o Repeat(str, n - 1)

EndMarkerHead == <<"<!--", SP, "end of generated table", SP>>
EndMarker(n) == EndMarkerHead \o <<"(" \o ToString(n) \o " rows)", SP, "-->", NL>>

\* A table whose end marker miscounts the rows.
FormatTable_Miscount(rows, columns) ==
  << TextLine("| " \o JoinStr([i \in 1..Len(columns) |-> columns[i][1]], " | ") \o " |"),
     TextLine(Repeat("|---", Len(columns)) \o "|") >>
  \o [k \in 1..Len(rows) |->
        TextLine("| " \o JoinStr([i \in 1..Len(columns) |-> RowGet(rows[k], columns[i][2])],
                                 " | ") \o " |")]
  \o << EndMarker(Len(rows) + 1) >>

\* format_table(data, columns): columns is a sequence of <<title, column id>>.
FormatTable(rows, columns) ==
  << TextLine("| " \o JoinStr([i \in 1..Len(columns) |-> columns[i][1]], " | ") \o " |"),
     TextLine(Repeat("|---", Len(columns)) \o "|") >>
  \o [k \in 1..Len(rows) |->
        TextLine("| " \o JoinStr([i \in 1..Len(columns) |-> RowGet(rows[k], columns[i][2])],
                                 " | ") \o " |")]
  \o << EndMarker(Len(rows)) >>

----------------------------------------------------------------------------
(* update_tables, update_md *)

\* The python snippets of the table markers and what eval() makes of them.
AllRows == "format_table(data, {'Engine': 'engine_link', 'Language': 'language_abbr'})"
LocRows == "format_table([r for r in data if r.get('loc_abbr')], "
           \o "{'Engine': 'engine_link', 'LOC': 'loc_abbr', 'Standard': 'standard_abbr'})"
NoColumns == "format_table(data)"
Snippets == {AllRows, LocRows, NoColumns}
EvalFails(snippet) == snippet = NoColumns
Eval(snippet, rows) ==
  IF snippet = AllRows
  THEN FormatTable(rows, << <<"Engine", "engine_link">>, <<"Language", "language_abbr">> >>)
  ELSE FormatTable(SelectSeq(rows, LAMBDA r : r.loc_abbr # ""),
                   << <<"Engine", "engine_link">>, <<"LOC", "loc_abbr">>,
                      <<"Standard", "standard_abbr">> >>)

\* '^<!-- update.py: (format_table\(.*\)) -->$' on line.strip()
MarkerLine(snippet) == <<"<!--", SP, "update.py:", SP, snippet, SP, "-->", NL>>
IsMarker(line) ==
  \E sn \in Snippets : Strip(line) = SubSeq(MarkerLine(sn), 1, Len(MarkerLine(sn)) - 1)
SnippetOf(line) == Strip(line)[5]

\* '^<!-- end of generated table .*-->$' on line.strip()
IsEndMarker(line) ==
  LET st == Strip(line)
  IN /\ Len(st) > Len(EndMarkerHead)
     /\ SubSeq(st, 1, Len(EndMarkerHead)) = EndMarkerHead
     /\ st[Len(st)] = "-->"

\* The loop over the lines of the file.
RECURSIVE Transform(_, _, _, _, _)
Transform(lines, i, skip_till_end, rows, out) ==
  IF i > Len(lines) THEN [lines |-> out, skip_till_end |-> skip_till_end, raised |-> FALSE]
  ELSE IF skip_till_end
       THEN Transform(lines, i + 1, ~IsEndMarker(lines[i]), rows, out)
       ELSE IF IsMarker(lines[i])
            THEN IF EvalFails(SnippetOf(lines[i]))
                 THEN [lines |-> out, skip_till_end |-> FALSE, raised |-> TRUE]
                 ELSE Transform(lines, i + 1, TRUE, rows,
                                Append(out, lines[i]) \o Eval(SnippetOf(lines[i]), rows))
            ELSE Transform(lines, i + 1, FALSE, rows, Append(out, lines[i]))

\* update_tables without the assertion on skip_till_end.
UpdateTablesF_NoAssert(f, rows, fname) ==
  LET sh == UpdateMdShieldsF(f, fname)
      t == Transform(sh.file, 1, FALSE, FormatTableColumns(fname, rows), <<>>)
  IN IF t.raised
     THEN [file |-> sh.file, wrote |-> sh.wrote, err |-> Fatal("TypeError", fname, -1, <<>>)]
     ELSE [file |-> ReadLines(t.lines), wrote |-> (sh.wrote \/ t.lines # sh.file),
           err |-> NoErr]

\* update_tables(filename, data)
UpdateTablesF(f, rows, fname) ==
  LET sh == UpdateMdShieldsF(f, fname)
      t == Transform(sh.file, 1, FALSE, FormatTableColumns(fname, rows), <<>>)
  IN IF t.raised
     THEN [file |-> sh.file, wrote |-> sh.wrote, err |-> Fatal("TypeError", fname, -1, <<>>)]
     ELSE IF t.skip_till_end
     THEN [file |-> sh.file, wrote |-> sh.wrote,
           err |-> Fatal("missing end marker", fname, -1, <<>>)]
     ELSE [file |-> ReadLines(t.lines), wrote |-> (sh.wrote \/ t.lines # sh.file),
           err |-> NoErr]

----------------------------------------------------------------------------
(* do_engine_data, process_md, merge_jsons, summarize_scores *)

ARCH_LIST == <<"arm64", "amd64">>
MARKDOWN_LINKS_BASE == "https://github.com/ivankra/javascript-zoo/blob/master/"

\* The MDMapping of each METADATA_MAP entry, in the order of the entries: its
\* json_key, whether its simplify list has strip_brackets, and drop_detailed.
Mapping(json_key, brackets, drop_detailed) ==
  [json_key |-> json_key, brackets |-> brackets, drop_detailed |-> drop_detailed]
MDMappings ==
  << Mapping("homepage", FALSE, FALSE), Mapping("npm", FALSE, FALSE),
     Mapping("repository", TRUE, FALSE), Mapping("branch", TRUE, TRUE),
     Mapping("github", TRUE, FALSE), Mapping("sources", FALSE, FALSE),
     Mapping("loc", FALSE, FALSE), Mapping("language", TRUE, FALSE),
     Mapping("license", TRUE, FALSE), Mapping("org", FALSE, FALSE),
     Mapping("standard", TRUE, FALSE), Mapping("years", FALSE, FALSE),
     Mapping("ancestors", TRUE, TRUE), Mapping("ancestors", TRUE, TRUE),
     Mapping("forks", TRUE, TRUE), Mapping("forks", TRUE, TRUE),
     Mapping("predecessors", TRUE, TRUE), Mapping("predecessors", TRUE, TRUE),
     Mapping("successors", TRUE, TRUE), Mapping("successors", TRUE, TRUE),
     Mapping("type", FALSE, FALSE), Mapping("features", FALSE, FALSE),
     Mapping("parser", TRUE, FALSE), Mapping("platform", TRUE, FALSE),
     Mapping("interpreter", TRUE, FALSE), Mapping("jit", FALSE, FALSE),
     Mapping("gc", TRUE, FALSE), Mapping("regex", TRUE, FALSE),
     Mapping("dll", FALSE, FALSE) >>

\* strip_brackets: re.sub(r' +\([^()]+\)', ' ', text).strip(); a bracketed part
\* is the token Bracket after one space.
Bracket == "(x)"
StripBrackets(text) == Strip(Replace(text, <<SP, Bracket>>, <<SP>>))

\* item.detailed_value and item.simplified_value of an item that has a mapping and
\* ': ' in its text.  The values of the model hold no link, tag or licence
\* expression, and no LOC line, so that strip_brackets is the one function of a
\* simplify list that changes a value.
DetailedValue(item) == Cat(Strip(ValueOf(item.text)))
SimplifiedValue(item) ==
  IF MDMappings[item.mapping + 1].brackets
  THEN Cat(StripBrackets(Strip(ValueOf(item.text))))
  ELSE DetailedValue(item)

\* The loop of process_md with a key keeping the value it got first.
RECURSIVE ProcessItems_FirstWins(_, _)
ProcessItems_FirstWins(row, items) ==
  IF items = <<>> THEN row
  ELSE
    LET item == Head(items)
    IN IF item.mapping = -1 \/ ~HasColon(item.text)
          \/ DictHas(row, MDMappings[item.mapping + 1].json_key)
       THEN ProcessItems_FirstWins(row, Tail(items))
       ELSE ProcessItems_FirstWins(
              DictPut(row, MDMappings[item.mapping + 1].json_key, SimplifiedValue(item)),
              Tail(items))

\* The loop of process_md over parsed.metadata.
RECURSIVE ProcessItems(_, _)
ProcessItems(row, items) ==
  IF items = <<>> THEN row
  ELSE
    LET item == Head(items)
        m == MDMappings[item.mapping + 1]
        set == DictPut(row, m.json_key, SimplifiedValue(item))
    IN IF item.mapping = -1 \/ ~HasColon(item.text)
       THEN ProcessItems(row, Tail(items))
       ELSE IF SimplifiedValue(item) = DetailedValue(item) \/ m.drop_detailed
       THEN ProcessItems(set, Tail(items))
       ELSE ProcessItems(DictPut(set, m.json_key \o "_detailed", DetailedValue(item)),
                         Tail(items))

\* process_md(row, kind, filename, args); f is the text of the file.
ProcessMd(row, kind, name, f) ==
  LET parsed_ == ParseMdMetadata(f, kind \o "s/" \o name \o ".md")
      lines == ReadStripped(f)
      title == Cat(Strip(Tail(lines[1])))
      summary == JoinStr([k \in 1..(SkipSummary(lines, 2) - 2) |-> Cat(Strip(lines[k + 2]))],
                         " ")
      head == DictPut(DictPut(DictPut(DictPut(row,
                "title", DictGet(row, "title", title)),
                "summary", summary),
                "jsz_url", MARKDOWN_LINKS_BASE \o kind \o "s/" \o name \o ".md"),
                "markdown", f)
  IN IF ~parsed_.ok THEN [ok |-> FALSE, err |-> parsed_.err, row |-> row]
     ELSE [ok |-> TRUE, err |-> NoErr, row |-> ProcessItems(head, parsed_.metadata)]

\* merge_jsons that drops its first argument.
MergeJsons_SecondOnly(a, b) == b

\* merge_jsons(a, b)
RECURSIVE MergeJsons(_, _)
MergeJsons(a, b) ==
  IF b = <<>> THEN a ELSE MergeJsons(DictPut(a, b[1][1], b[1][2]), Tail(b))

DictPop(d, k) == SelectSeq(d, LAMBDA e : e[1] # k)

\* sorted(scores)
RECURSIVE SortInts(_)
SortInts(scores) ==
  IF scores = <<>> THEN <<>>
  ELSE LET rest == SortInts(Tail(scores))
           lower == SelectSeq(rest, LAMBDA x : x <= Head(scores))
           upper == SelectSeq(rest, LAMBDA x : x > Head(scores))
       IN lower \o <<Head(scores)>> \o upper

RECURSIVE SumInts(_)
SumInts(scores) == IF scores = <<>> THEN 0 ELSE Head(scores) + SumInts(Tail(scores))

\* summarize_scores(scores): the numbers its string is formatted from; the mean is
\* sum / N, and the standard error of the mean is left out.
SummarizeScores(scores) ==
  [N |-> Len(scores), median |-> SortInts(scores)[(Len(scores) \div 2) + 1],
   sum |-> SumInts(scores), max |-> SortInts(scores)[Len(scores)]]

\* The first loop: one row per markdown file.  A name is a sequence of tokens
\* with '_' a token of its own; data maps the id to the row, conformance_data the
\* engine to a one-element sequence that holds its record.
RECURSIVE MdLoop(_, _, _, _)
MdLoop(mds, data_, kind, conformance_data) ==
  IF mds = <<>> THEN [ok |-> TRUE, err |-> NoErr, data |-> data_]
  ELSE
    LET md == Head(mds)
        name == Cat(md.name)
        split == Find(md.name, <<"_">>)
        engine == IF split > 0 THEN Cat(SubSeq(md.name, 1, split - 1)) ELSE name
        row == IF split > 0
               THEN << <<"id", name>>, <<"engine", engine>>,
                       <<"variant", Cat(SubSeq(md.name, split + 1, Len(md.name)))>> >>
               ELSE << <<"id", name>> >>
        p == ProcessMd(row, kind, name, md.file)
        benched == DictPut(p.row, "bench", <<>>)
        conf == DictGet(conformance_data, name, DictGet(conformance_data, engine, <<>>))
        done == IF conf # <<>>
                THEN DictPut(benched, "conformance", conf[1].conformance_scores)
                ELSE benched
    IN IF name \in {"README", "index"} THEN MdLoop(Tail(mds), data_, kind, conformance_data)
       ELSE IF ~p.ok THEN [ok |-> FALSE, err |-> p.err, data |-> data_]
       ELSE MdLoop(Tail(mds), DictPut(data_, name, done), kind, conformance_data)

\* filename.endswith(variant + '.json'); a file name is a sequence of tokens that
\* ends with ".json".
EndsWithVariant(json_name, variant) ==
  variant = "" \/ (Len(json_name) >= 2 /\ json_name[Len(json_name) - 1] = variant)

BenchKey(arch, engine, variant) == arch \o "/" \o engine \o "/" \o variant

\* row['bench'][bench_key] = dist_json, for the row of engine
SetBench(data_, engine, bench_key, dist_json) ==
  LET row == DictGet(data_, engine, <<>>)
  IN DictPut(data_, engine,
             DictPut(row, "bench", DictPut(DictGet(row, "bench", <<>>), bench_key, dist_json)))

\* The loop over dist/{arch}/*.json, for one arch.
RECURSIVE DistLoop(_, _, _)
DistLoop(files, data_, arch) ==
  IF files = <<>> THEN [ok |-> TRUE, data |-> data_]
  ELSE
    LET dist_json == Head(files).json
        engine == DictGet(dist_json, "engine", "")
        variant == DictGet(dist_json, "variant", "")
        variant_row == DictGet(data_, engine \o "_" \o variant, <<>>)
        merged == IF variant # "" /\ variant_row # <<>>
                  THEN MergeJsons(variant_row, dist_json) ELSE dist_json
    IN IF ~DictHas(dist_json, "engine") \/ ~DictHas(data_, engine)
       THEN DistLoop(Tail(files), data_, arch)
       ELSE IF ~EndsWithVariant(Head(files).file, variant)
               \/ DictGet(dist_json, "arch", arch) # arch
       THEN [ok |-> FALSE, data |-> data_]
       ELSE IF variant \in {"full", "intl"}
               \/ {dist_json[i][1] : i \in 1..Len(dist_json)} \subseteq
                    {"arch", "variant", "engine"}
       THEN DistLoop(Tail(files), data_, arch)
       ELSE DistLoop(Tail(files),
                     SetBench(data_, engine, BenchKey(arch, engine, variant), merged), arch)

\* sorted(benchmarks.keys()) and sorted(row['bench'].keys()): the keys of the
\* model in the order of str.
ColOrder == <<"kraken", "octane">>
KeyOrder ==
  << "amd64/x/", "amd64/x/jitless", "amd64/x/v2",
     "arm64/x/", "arm64/x/jitless", "arm64/x/v2" >>
SortedKeys(d, order) == SelectSeq(order, LAMBDA k : DictHas(d, k))

\* The loop over the columns of one bench file.
RECURSIVE ColLoop(_, _, _)
ColLoop(cols, benchmarks, dist_json) ==
  IF cols = <<>> THEN dist_json
  ELSE
    LET col == Head(cols)
        b == DictGet(benchmarks, col, <<>>)
        scores == SortInts(DictGet(b, "score", <<>>))
    IN IF scores # <<>>
       THEN ColLoop(Tail(cols), benchmarks,
                    DictPut(DictPut(dist_json, col, scores[(Len(scores) \div 2) + 1]),
                            col \o "_detailed", SummarizeScores(scores)))
       ELSE IF DictGet(b, "error", "") # ""
       THEN ColLoop(Tail(cols), benchmarks,
                    DictPut(dist_json, col \o "_error", DictGet(b, "error", "")))
       ELSE ColLoop(Tail(cols), benchmarks, dist_json)

\* The loop over bench/{arch}/*.json, for one arch.
RECURSIVE BenchLoop(_, _, _)
BenchLoop(files, data_, arch) ==
  IF files = <<>> THEN [ok |-> TRUE, data |-> data_]
  ELSE
    LET metadata == Head(files).json.metadata
        engine == DictGet(metadata, "engine", "")
        variant == DictGet(metadata, "variant", "")
        bench_key == BenchKey(arch, engine, variant)
        bench == DictGet(DictGet(data_, engine, <<>>), "bench", <<>>)
        merged == IF DictHas(bench, bench_key)
                  THEN MergeJsons(DictGet(bench, bench_key, <<>>), metadata) ELSE metadata
        jit == IF variant = "jitless" THEN DictPut(merged, "jit", "") ELSE merged
        benchmarks == Head(files).json.benchmarks
    IN IF ~DictHas(metadata, "engine") \/ ~DictHas(data_, engine)
       THEN BenchLoop(Tail(files), data_, arch)
       ELSE IF ~EndsWithVariant(Head(files).file, variant)
               \/ DictGet(metadata, "arch", arch) # arch
       THEN [ok |-> FALSE, data |-> data_]
       ELSE IF variant = "full" THEN BenchLoop(Tail(files), data_, arch)
       ELSE BenchLoop(Tail(files),
                      SetBench(data_, engine, bench_key,
                               ColLoop(SortedKeys(benchmarks, ColOrder), benchmarks, jit)),
                      arch)

\* One entry of bench_flat: the keys that repeat the row's value, 'engine',
\* 'title' and 'bench' are dropped.
FlatEntry(dist_json, data_) ==
  LET row == DictGet(data_, DictGet(dist_json, "engine", ""), <<>>)
  IN SelectSeq(dist_json,
       LAMBDA e : /\ e[1] \notin {"engine", "title", "bench"}
                  /\ ~(DictHas(row, e[1]) /\ DictGet(row, e[1], <<>>) = e[2]))

\* Drop variant rows, flatten bench.
FlattenBench(data_) ==
  LET kept == SelectSeq(data_, LAMBDA e : ~DictHas(e[2], "variant"))
  IN [i \in 1..Len(kept) |->
        LET row == kept[i][2]
            bench == DictGet(row, "bench", <<>>)
            keys == SortedKeys(bench, KeyOrder)
            bench_flat == [k \in 1..Len(keys) |->
                             FlatEntry(DictGet(bench, keys[k], <<>>), data_)]
        IN IF bench_flat = <<>> THEN DictPop(row, "bench")
           ELSE DictPut(row, "bench", bench_flat)]

\* do_engine_data(args, kind, md_glob, json_file, conformance_data), run without
\* --format-markdown and without --github or a cache of GitHub data; files holds the
\* markdown files, the dist files and the bench files, each list in sorted order.
DoEngineDataF(kind, files, conformance_data) ==
  LET byArch(fs, arch) == SelectSeq(fs, LAMBDA x : x.arch = arch)
      mds == MdLoop(files.mds, <<>>, kind, conformance_data)
      d1 == DistLoop(byArch(files.dist, ARCH_LIST[1]), mds.data, ARCH_LIST[1])
      d2 == DistLoop(byArch(files.dist, ARCH_LIST[2]), d1.data, ARCH_LIST[2])
      b1 == BenchLoop(byArch(files.bench, ARCH_LIST[1]), d2.data, ARCH_LIST[1])
      b2 == BenchLoop(byArch(files.bench, ARCH_LIST[2]), b1.data, ARCH_LIST[2])
  IN IF ~mds.ok THEN [rows |-> <<>>, err |-> mds.err]
     ELSE IF ~d1.ok \/ ~d2.ok \/ ~b1.ok \/ ~b2.ok
     THEN [rows |-> <<>>, err |-> Fatal("AssertionError", "", -1, <<>>)]
     ELSE [rows |-> FlattenBench(b2.data), err |-> NoErr]

----------------------------------------------------------------------------
(* The markdown documents the metadata operations are run on *)

\* Labels: two registry fields, an unregistered label without a value, and an
\* unregistered label long enough to pass the upper clamp of lhs_width.
LongLabel == <<"Implementation-defined-limits">>

ItemKinds ==
  { [indent |-> 0, label |-> <<"Homepage">>, value |-> TRUE],
    [indent |-> 0, label |-> <<"License">>, value |-> TRUE],
    [indent |-> 0, label |-> <<"Note">>, value |-> FALSE],
    [indent |-> 0, label |-> LongLabel, value |-> TRUE],
    [indent |-> 2, label |-> <<"Note">>, value |-> FALSE],
    [indent |-> 2, label |-> <<"Homepage">>, value |-> TRUE],
    [indent |-> 4, label |-> <<"Homepage">>, value |-> TRUE],
    [indent |-> 3, label |-> <<"Note">>, value |-> FALSE] }

\* How the list is typed: the column the values start at (0: one space after the
\* colon), the spaces after '*', trailing spaces, and what follows the list.
Layouts ==
  { [col |-> 0, star |-> 1, trail |-> 0, tail |-> "para"],
    [col |-> 14, star |-> 1, trail |-> 0, tail |-> "para"],
    [col |-> 32, star |-> 1, trail |-> 0, tail |-> "end"],
    [col |-> 14, star |-> 1, trail |-> 0, tail |-> "eof"],
    [col |-> 14, star |-> 2, trail |-> 1, tail |-> "end"] }

ListLine(kind, i, lay, last) ==
  LET prefix == kind.indent + 1 + lay.star + TextLen(kind.label) + 2
      gap == IF lay.col > prefix THEN 1 + lay.col - prefix ELSE 1
  IN Spaces(kind.indent) \o <<"*">> \o Spaces(lay.star) \o kind.label
     \o (IF kind.value THEN <<":">> \o Spaces(gap) \o <<ToString(i)>> ELSE <<>>)
     \o Spaces(lay.trail)
     \o (IF last /\ lay.tail = "eof" THEN <<>> ELSE <<NL>>)

Title == <<"#", SP, "T", NL>>
Blank == <<NL>>
Summary == <<"Sum", NL>>
TailPara == << Blank, <<"tail", NL>>, <<"*", SP, "Homepage", ":", SP, "t", NL>> >>

MdDoc(kinds, lay) ==
  <<Title, Blank, Summary, Blank>>
  \o [i \in 1..Len(kinds) |-> ListLine(kinds[i], i, lay, i = Len(kinds))]
  \o (IF lay.tail = "para" THEN TailPara ELSE <<>>)

\* The lists that start at the margin; BadDocs holds the ones that do not.
MdDocs ==
  { MdDoc(kinds, lay) :
      kinds \in {ks \in UNION {[1..n -> ItemKinds] : n \in 1..MaxItems} : ks[1].indent = 0},
      lay \in Layouts }

\* Documents the grammar of the header rejects.
BadDocs ==
  { <<>>,
    << <<"T", NL>>, Blank, Summary >>,
    << Title, Blank, Blank >>,
    << Title, Blank, Summary >>,
    << Title, Blank, Summary, <<"*", SP, "Note", NL>> >>,
    << Title, Blank, Summary, Blank, <<"Note", NL>> >>,
    << Title, Blank, Summary, Blank, <<SP, SP, "*", SP, "Note", NL>> >>,
    << Title, Blank, Summary, Blank, <<SP, SP, SP, "*", SP, "Note", NL>>,
       <<"*", SP, "Note", NL>> >>,
    << Title, Blank, Summary, Blank, <<"*", SP, "Note", NL>>, <<"text", NL>> >> }

----------------------------------------------------------------------------
(* The inputs of the generated parts: engine rows, test results, documents *)

GithubRepo == "https://github.com/u/r"
GitlabRepo == "http://gitlab.com/u/r.git"
CodebergRepo == "https://codeberg.org/u/r/"
OtherSite == "https://example.com/u/r"

\* Rows of engines.json; a key the row lacks is "" (0 for loc, -1 for github_stars).
RowV8 ==
  [id |-> <<"v", "8">>, title |-> "V8", language |-> <<"C", "+", "+">>,
   github_stars |-> 100, github |-> GithubRepo, repository |-> "", homepage |-> "",
   loc |-> 1500000, standard |-> "ESnext", jsz |-> <<"engines", "v8.md">>]
RowQuickJS ==
  [id |-> <<"q", "u", "i", "c", "k", "j", "s">>, title |-> "QuickJS",
   language |-> <<"C">>, github_stars |-> 5, github |-> "", repository |-> GitlabRepo,
   homepage |-> "", loc |-> 52000, standard |-> "ES2015 (ES6)",
   jsz |-> <<"engines", "quickjs.md">>]
RowBoa ==
  [id |-> <<"b", "o", "a">>, title |-> "Boa", language |-> <<"R", "u", "s", "t">>,
   github_stars |-> -1, github |-> "", repository |-> "", homepage |-> OtherSite,
   loc |-> 0, standard |-> "ES3 (partial)", jsz |-> <<"engines", "boa.md">>]
RowAcorn ==
  [id |-> <<"A", "c", "o", "r", "n">>, title |-> "Acorn",
   language |-> <<"T", "y", "p", "e", "S", "c", "r", "i", "p", "t", ",", " ",
                  "J", "a", "v", "a", "S", "c", "r", "i", "p", "t">>,
   github_stars |-> 7, github |-> "", repository |-> "", homepage |-> "",
   loc |-> 2400, standard |-> "ES5", jsz |-> <<"parsers", "acorn.md">>]
RowNoLang ==
  [id |-> <<"n", "o", "l", "a", "n", "g">>, title |-> "NoLang", language |-> <<>>,
   github_stars |-> -1, github |-> "", repository |-> CodebergRepo, homepage |-> "",
   loc |-> 500, standard |-> "", jsz |-> <<"engines", "nolang.md">>]
RowJsc ==
  [id |-> <<"j", "s", "c">>, title |-> "JavaScriptCore", language |-> <<"C", "+", "+">>,
   github_stars |-> 50, github |-> "", repository |-> "", homepage |-> "",
   loc |-> 0, standard |-> "ESnext", jsz |-> <<"engines", "jsc.md">>]
RowHermes ==
  [id |-> <<"H", "e", "r", "m", "e", "s">>, title |-> "Hermes",
   language |-> <<"C", "+", "+">>, github_stars |-> 9, github |-> "",
   repository |-> "", homepage |-> "", loc |-> 0, standard |-> "",
   jsz |-> <<"engines", "hermes.md">>]

\* The row lists whose order is checked: up to MaxRows different rows, in every
\* input order, and the document their table goes to.
MaxRows == 3
TableRows == {RowV8, RowJsc, RowQuickJS, RowHermes, RowBoa, RowAcorn, RowNoLang}
RowLists ==
  UNION {{rs \in [1..n -> TableRows] : \A i, j \in 1..n : rs[i] = rs[j] => i = j} :
           n \in 1..MaxRows}

\* One line of a results file: '<dir>/<base>: <result>', with its weight: 1, or
\* for a file of the compat-table 1, 2, 4 or 8 divided by the size of its group
\* (the groups here have one file).
Test(dir, base, weight, result) ==
  [test |-> dir \o "/" \o base, dir |-> dir, base |-> base, weight |-> weight,
   result |-> result, count |-> 1]
\* count lines '<dir>/<file>: OK' of weight 1
Passing(dir, count) ==
  [test |-> dir \o "/ok.js", dir |-> dir, base |-> "ok.js", weight |-> 1,
   result |-> "OK", count |-> count]

ManyFailures == 22
EsTests ==
  << Test("es1", "a.js", 1, "OK"), Test("es1", "b.js", 1, "failed"),
     Test("es5", "c.js", 1, "OK"), Test("es5", "d.js", 1, "OK") >>
KangaxTests ==
  << Test("es1", "a.js", 1, "OK"),
     Test("kangax-es6", "x.js", 2, "crashed"), Test("kangax-es6", "y.js", 1, "OK"),
     Test("kangax-es2016", "z.js", 4, "OK"), Test("kangax-es2016", "v.js", 1, "a<b"),
     Test("kangax-next", "w.js", 1, "panic: oops"),
     Test("kangax-next", "u.js", 4, "crashed") >>
LongTests ==
  [i \in 1..ManyFailures |-> Test("es3", "t" \o ToString(i) \o ".js", 1, "failed")]
  \o << Passing("es3", 30) >>

\* The results files of the score checks: one to MaxTests lines of the
\* compat-table directory kangax-es6, with every weight and every kind of result,
\* followed by nothing or by a directory es3 that has many lines.
MaxTests == 2
BigDir == 30000
Weights == {1, 2, 4, 8}
ResultKinds == {"OK", "failed", "crashed"}
Failing(dir, n) == [i \in 1..n |-> Test(dir, "t" \o ToString(i) \o ".js", 1, "failed")]
KangaxLines ==
  UNION {{[i \in 1..n |-> Test("kangax-es6", "k" \o ToString(i) \o ".js", w[i], r[i])] :
            w \in [1..n -> Weights], r \in [1..n -> ResultKinds]} : n \in 1..MaxTests}
Es3Lines ==
  { <<>>,
    << Passing("es3", BigDir) >>,
    << Passing("es3", BigDir - 1) >> \o Failing("es3", 1),
    << Passing("es3", BigDir), Test("es1", "a.js", 1, "failed"),
       Test("es1", "b.js", 1, "OK") >>,
    << Passing("es3", 3) >> \o Failing("es3", 4) }
  \cup {Failing("es3", n) \o << Passing("es3", 30) >> :
          n \in (ManyFailures - 2)..ManyFailures}
ResultsFiles == {k \o e : k \in KangaxLines, e \in Es3Lines}
ScoreDocs ==
  { << TextLine("text") >>,
    << ConformanceHeading, <<NL>>, TextLine("<details>old</details>"),
       <<"#", "#", SP, "Notes", NL>> >> }

ResultsPath == "conformance/results/x.txt"
\* os.path.basename(filename).removesuffix('.txt') of ResultsPath
ResultsEngine == "x"

\* The files of do_engine_data: engines/*.md, dist/{arch}/*.json and
\* bench/{arch}/*.json, each list in the order of sorted().
NoFiles == [mds |-> <<>>, dist |-> <<>>, bench |-> <<>>]
Item(label, value) == <<"*", SP, label, ":", SP>> \o value \o <<NL>>
EngineDoc(items) == <<Title, Blank, Summary, Blank>> \o items
Md(name, f) == [name |-> name, file |-> f]
EngineDocs ==
  { EngineDoc(<< Item("License", <<"MIT">>), Item("Ancestor", <<"a">>),
                 Item("Ancestors", <<"b">>) >>),
    EngineDoc(<< Item("License", <<"MIT">>), Item("Ancestors", <<"b">>),
                 Item("Ancestor", <<"a">>) >>),
    EngineDoc(<< Item("License", <<"MIT", SP, Bracket>>), Item("JIT", <<"yes">>) >>),
    << Title, Blank, Summary >> }
VariantDocs ==
  { EngineDoc(<< Item("License", <<"MIT">>), Item("JIT", <<"no">>) >>),
    EngineDoc(<< Item("License", <<"GPL">>) >>) }
MdLists ==
  {<< Md(<<"x">>, d) >> : d \in EngineDocs}
  \cup {<< Md(<<"x">>, d), Md(<<"x", "_", "v2">>, v) >> : d \in EngineDocs, v \in VariantDocs}
  \cup {<< Md(<<"x", "_", "v2">>, v) >> : v \in VariantDocs}
  \cup {<< Md(<<"README">>, <<>>), Md(<<"x">>, d), Md(<<"x", "_", "v2">>, d) >> :
          d \in VariantDocs}

Json(arch, json_name, json) == [arch |-> arch, file |-> json_name, json |-> json]
DistX ==
  Json("arm64", <<"x", ".json">>,
       << <<"engine", "x">>, <<"arch", "arm64">>, <<"binary_size", 100>> >>)
DistFull ==
  Json("arm64", <<"x", "_", "full", ".json">>,
       << <<"engine", "x">>, <<"variant", "full">>, <<"binary_size", 1>> >>)
DistV2 ==
  Json("arm64", <<"x", "_", "v2", ".json">>,
       << <<"engine", "x">>, <<"variant", "v2">>, <<"binary_size", 200>> >>)
DistV2Bare ==
  Json("arm64", <<"x", "_", "v2", ".json">>,
       << <<"engine", "x">>, <<"variant", "v2">>, <<"arch", "arm64">> >>)
DistV2Amd ==
  Json("amd64", <<"x", "_", "v2", ".json">>,
       << <<"engine", "x">>, <<"variant", "v2">>, <<"arch", "amd64">>,
          <<"binary_size", 300>>, <<"jit", "amd">> >>)
DistWrongArch ==
  Json("arm64", <<"x", ".json">>,
       << <<"engine", "x">>, <<"arch", "amd64">>, <<"binary_size", 100>> >>)
DistLists ==
  { <<>>, <<DistX>>, <<DistV2>>, <<DistX, DistV2>>, <<DistV2Bare>>, <<DistV2Amd>>,
    <<DistX, DistFull, DistV2, DistV2Amd>>, <<DistWrongArch>> }

\* A bench file for x with the scores of octane, and one of the jitless build.
MaxScores == 3
ScoreLists == UNION {[1..n -> 1..3] : n \in 1..MaxScores}
BenchX(scores) ==
  Json("arm64", <<"x", ".json">>,
       [metadata |-> << <<"engine", "x">>, <<"arch", "arm64">> >>,
        benchmarks |-> << <<"octane", << <<"score", scores>> >> >>,
                          <<"kraken", << <<"score", <<>>>>, <<"error", "timeout">> >> >> >>])
BenchJitless ==
  Json("arm64", <<"x", "_", "jitless", ".json">>,
       [metadata |-> << <<"engine", "x">>, <<"variant", "jitless">>, <<"jit", "yes">> >>,
        benchmarks |-> << <<"octane", << <<"score", <<5, 1>>>>, <<"error", "late">> >> >>,
                          <<"kraken", <<>> >> >>])
BenchLists ==
  {<<>>} \cup {<< BenchX(s) >> : s \in ScoreLists}
  \cup {<< BenchX(<<3, 1>>), BenchJitless >>}

\* Every list of markdown files with every list of dist files, and every list of
\* bench files with an engine that has a variant.
Checkouts ==
  [mds : MdLists, dist : DistLists, bench : {<<>>, << BenchX(<<3, 1>>), BenchJitless >>}]
  \cup [mds : {ms \in MdLists : Len(ms) = 2 /\ ms[1].file # << Title, Blank, Summary >>},
        dist : {<<>>, <<DistX, DistV2>>}, bench : BenchLists]
\* One run of the script over one file: the file name, the rows and the results.
Jobs ==
  { [filename |-> "README.md", data |-> <<RowQuickJS, RowV8, RowBoa>>,
     results |-> EsTests],
    [filename |-> "parsers/acorn.md", data |-> <<RowNoLang, RowAcorn>>,
     results |-> KangaxTests],
    [filename |-> "engines/x.md", data |-> <<>>, results |-> LongTests] }

\* The blocks a generated document is put together from.
StaleRow == TextLine("| old | row |")
StaleEnd == EndMarker(7)
Blocks ==
  { << TextLine("text") >>,
    << <<NL>> >>,
    << <<"#", "#", SP, "Notes", NL>> >>,
    << <<"<", GithubRepo, ">", SP, "<span class=\"shields\">old</span>", NL>> >>,
    << <<"(", OtherSite, ")", "<div class=\"shields\">old</div>", SP,
         GitlabRepo, "<div class=\"shields\">old</div>", NL>> >>,
    << ConformanceHeading, <<NL>>, TextLine("<details>old</details>") >>,
    << ConformanceHeading >>,
    << MarkerLine(AllRows), StaleRow, StaleEnd >>,
    << <<SP>> \o MarkerLine(LocRows),
       <<SP, SP>> \o EndMarkerHead \o <<"-->", SP, NL>> >>,
    << MarkerLine(AllRows), StaleRow, <<"<!--", SP, "end of table", SP, "-->", NL>> >>,
    << MarkerLine(NoColumns), StaleEnd >> }

TableDoc == << TextLine("text"), MarkerLine(AllRows), StaleRow, StaleEnd >>

MaxBlocks == 2

\* The last line of a file may lack its newline.
ChopNewline(f) ==
  IF f = <<>> THEN f
  ELSE SubSeq(f, 1, Len(f) - 1) \o << SubSeq(f[Len(f)], 1, Len(f[Len(f)]) - 1) >>

RenderDocs ==
  LET whole == {Flatten(bs) : bs \in UNION {[1..n -> Blocks] : n \in 0..MaxBlocks}}
  IN whole \cup {ReadLines(ChopNewline(f)) : f \in whole}

----------------------------------------------------------------------------
(* Operations *)

MdFileName == "engines/x.md"

\* The outcome of one operation: the variables it sets.
Outcome(p, f, em, w, e) ==
  /\ parsed' = p
  /\ file' = f
  /\ emitted' = em
  /\ wrote' = w
  /\ err' = e

\* write_md_metadata(filename): parses, then rewrites the list.
WriteMdMetadata ==
  /\ Len(ops) < MaxRuns
  /\ \E p \in {ParseMdMetadata(file, filename)} :
       IF ~p.ok THEN Outcome(p, file, <<>>, FALSE, p.err)
       ELSE \E w \in {WriteMdMetadataF(file, p, filename)} :
              Outcome(p, w.file, w.emitted, w.wrote, w.err)
  /\ prev' = file
  /\ ops' = Append(ops, "write_md_metadata")
  /\ UNCHANGED <<filename, data, conformance, results, checkout, engines_data>>

\* update_md(filename, data, conformance): parse, write, badges and, with
\* conformance data (<<>> stands for None), the Conformance section; an exception
\* ends the run where it is raised.
UpdateMd ==
  /\ Len(ops) < MaxRuns
  /\ \E p \in {ParseMdMetadata(file, filename)} :
       IF ~p.ok THEN Outcome(p, file, <<>>, FALSE, p.err)
       ELSE \E w \in {WriteMdMetadataF(file, p, filename)} :
         IF w.err # NoErr THEN Outcome(p, file, <<>>, FALSE, w.err)
         ELSE \E sh \in {UpdateMdShieldsF(w.file, filename)} :
           IF conformance = <<>>
           THEN Outcome(p, sh.file, w.emitted, w.wrote \/ sh.wrote, NoErr)
           ELSE \E uc \in {UpdateConformanceF(sh.file, conformance[1], filename)} :
                  Outcome(p, uc.file, w.emitted, w.wrote \/ sh.wrote \/ uc.wrote, uc.err)
  /\ prev' = file
  /\ ops' = Append(ops, "update_md")
  /\ UNCHANGED <<filename, data, conformance, results, checkout, engines_data>>

\* update_md_shields(filename)
UpdateMdShields ==
  /\ Len(ops) < MaxRuns
  /\ \E r \in {UpdateMdShieldsF(file, filename)} :
       Outcome(parsed, r.file, emitted, r.wrote, r.err)
  /\ prev' = file
  /\ ops' = Append(ops, "update_md_shields")
  /\ UNCHANGED <<filename, data, conformance, results, checkout, engines_data>>

\* update_conformance(filename, conformance)
UpdateConformance ==
  /\ Len(ops) < MaxRuns
  /\ conformance # <<>>
  /\ \E r \in {UpdateConformanceF(file, conformance[1], filename)} :
       Outcome(parsed, r.file, emitted, r.wrote, r.err)
  /\ prev' = file
  /\ ops' = Append(ops, "update_conformance")
  /\ UNCHANGED <<filename, data, conformance, results, checkout, engines_data>>

\* update_tables(filename, data)
UpdateTables ==
  /\ Len(ops) < MaxRuns
  /\ \E r \in {UpdateTablesF(file, data, filename)} :
       Outcome(parsed, r.file, emitted, r.wrote, r.err)
  /\ prev' = file
  /\ ops' = Append(ops, "update_tables")
  /\ UNCHANGED <<filename, data, conformance, results, checkout, engines_data>>

\* The metadata operations on engine documents.
InitMd ==
  /\ file \in MdDocs \cup BadDocs
  /\ filename = MdFileName
  /\ parsed = NoParse
  /\ emitted = <<>>
  /\ err = NoErr
  /\ wrote = FALSE
  /\ ops = <<>>
  /\ prev = file
  /\ data = <<>>
  /\ results = EsTests
  /\ conformance = << ParseConformanceData(results, ResultsPath) >>
  /\ checkout = NoFiles
  /\ engines_data = <<>>

NextMd == WriteMdMetadata \/ UpdateMd

Spec == InitMd /\ [][NextMd]_vars

\* The generated parts: badges, tables, Conformance section.
InitRender ==
  /\ file \in RenderDocs
  /\ \E job \in Jobs :
       /\ filename = job.filename
       /\ data = job.data
       /\ results = job.results
       /\ conformance = << ParseConformanceData(results, ResultsPath) >>
  /\ checkout = NoFiles
  /\ engines_data = <<>>
  /\ parsed = NoParse
  /\ emitted = <<>>
  /\ err = NoErr
  /\ wrote = FALSE
  /\ ops = <<>>
  /\ prev = file

NextRender == UpdateMdShields \/ UpdateConformance \/ UpdateTables

SpecRender == InitRender /\ [][NextRender]_vars

\* Tables: update_tables on a document with one table, for every list of rows.
InitSort ==
  /\ file = TableDoc
  /\ filename = "README.md"
  /\ data \in RowLists
  /\ results = <<>>
  /\ checkout = NoFiles
  /\ engines_data = <<>>
  /\ conformance = <<>>
  /\ parsed = NoParse
  /\ emitted = <<>>
  /\ err = NoErr
  /\ wrote = FALSE
  /\ ops = <<>>
  /\ prev = file

NextSort == UpdateTables

SpecSort == InitSort /\ [][NextSort]_vars

\* do_engine_data(args, 'engine', 'engines/*.md', 'engines.json', conformance_data)
DoEngineData ==
  /\ Len(ops) < MaxRuns
  /\ \E r \in {DoEngineDataF("engine", checkout, << <<ResultsEngine, conformance>> >>)} :
       /\ engines_data' = r.rows
       /\ err' = r.err
  /\ ops' = Append(ops, "do_engine_data")
  /\ UNCHANGED <<file, filename, parsed, emitted, wrote, prev, data, conformance, results,
                 checkout>>

\* The rows: do_engine_data over the files of a checkout.
InitData ==
  /\ checkout \in Checkouts
  /\ engines_data = <<>>
  /\ results = EsTests
  /\ conformance = << ParseConformanceData(results, ResultsPath) >>
  /\ file = <<>>
  /\ filename = ""
  /\ data = <<>>
  /\ parsed = NoParse
  /\ emitted = <<>>
  /\ err = NoErr
  /\ wrote = FALSE
  /\ ops = <<>>
  /\ prev = file

NextData == DoEngineData

SpecData == InitData /\ [][NextData]_vars

\* parse_conformance_data(), for the one engine of the results file
ParseConformance ==
  /\ conformance = <<>>
  /\ conformance' = << ParseConformanceData(results, ResultsPath) >>
  /\ UNCHANGED <<file, filename, parsed, emitted, err, wrote, ops, prev, data, results,
               checkout, engines_data>>

\* Scoring: a results file is parsed, then the Conformance section is written.
InitScore ==
  /\ file \in ScoreDocs
  /\ filename = MdFileName
  /\ results \in ResultsFiles
  /\ checkout = NoFiles
  /\ engines_data = <<>>
  /\ conformance = <<>>
  /\ data = <<>>
  /\ parsed = NoParse
  /\ emitted = <<>>
  /\ err = NoErr
  /\ wrote = FALSE
  /\ ops = <<>>
  /\ prev = file

NextScore == ParseConformance \/ UpdateConformance

SpecScore == InitScore /\ [][NextScore]_vars

----------------------------------------------------------------------------
(* Properties of the metadata parser and writer *)

Ran(op) == ops # <<>> /\ ops[Len(ops)] = op
RanMd == Ran("write_md_metadata") \/ Ran("update_md")
WriteDone == Ran("write_md_metadata") /\ parsed.ok /\ err = NoErr

\* The list block of a document, read off its text: the lines from the first
\* line after the blank line that ends the summary, up to the next blank line.
SummaryEnd(f) == SetMin({i \in 3..(Len(f) + 1) : i > Len(f) \/ RStrip(f[i]) = <<>>})
ListFirst(f) == SummaryEnd(f) + 1
ListLast(f) ==
  SetMin({i \in ListFirst(f)..(Len(f) + 1) : i > Len(f) \/ RStrip(f[i]) = <<>>}) - 1
ListBlock(f) == ListFirst(f)..ListLast(f)

\* Leading spaces of a line, and whether it is a list line.
RECURSIVE LeadingSpaces(_)
LeadingSpaces(s) == IF s # <<>> /\ Head(s) = SP THEN 1 + LeadingSpaces(Tail(s)) ELSE 0
IsListLine(s) ==
  Len(s) >= LeadingSpaces(s) + 2 /\ s[LeadingSpaces(s) + 1] = "*"
  /\ s[LeadingSpaces(s) + 2] = SP

Resolved(item) == item.mapping >= 0
Siblings(metadata) ==
  {<<i, j>> \in (1..Len(metadata)) \X (1..Len(metadata)) :
     i < j /\ metadata[i].parent = metadata[j].parent}

\* Registry order between two siblings a, b with a standing before b.
InOrder(a, b) ==
  /\ (Resolved(a) /\ Resolved(b)) => a.mapping <= b.mapping
  /\ ~Resolved(a) => ~Resolved(b)

InRegistryOrder(metadata) ==
  \A ij \in Siblings(metadata) : InOrder(metadata[ij[1]], metadata[ij[2]])

\* The column width of section 4.2, from the items of the list.
TargetWidth(metadata) ==
  Min2(Max2(SetMax({4 + metadata[i].indent + TextLen(TitleOf(metadata[i].text)) :
                      i \in {j \in 1..Len(metadata) : HasColon(metadata[j].text)}}),
            14), 32)

\* A line already laid out as the writer lays it out.
InLayout(line, item, width) ==
  LET lhs == Spaces(item.indent) \o <<"*", SP>> \o TitleOf(item.text) \o <<":", SP>>
  IN /\ item.indent <= 2
     /\ IF HasColon(item.text)
        THEN line = lhs \o Spaces(Max2(0, width - TextLen(lhs))) \o ValueOf(item.text)
                    \o <<NL>>
        ELSE line = Spaces(item.indent) \o <<"*", SP>> \o item.text \o <<NL>>

InWriterLayout(f, metadata) ==
  \A i \in 1..Len(metadata) :
    InLayout(f[metadata[i].line_no], metadata[i], TargetWidth(metadata))

\* C1 as stated: a parsed document whose children are in registry order is written
\* back byte-identical, whatever the spacing and the nesting depth.
C1_RoundTripAnySpacing ==
  (WriteDone /\ InRegistryOrder(parsed.metadata)) => file = prev

\* C1 amended: the write leaves the text byte-identical exactly when the list is
\* already in registry order and every list line is already in the writer's layout
\* (indentation 0 or 2, one space after '*', no trailing blanks, a final newline,
\* the value at the column width or one space after the colon).
C1_RoundTripInLayout ==
  WriteDone =>
    ((file = prev) <=> (InRegistryOrder(parsed.metadata)
                          /\ InWriterLayout(prev, parsed.metadata)))

C1_Witness ==
  /\ WriteDone /\ Len(ops) = 1 /\ file = prev /\ ~wrote
  /\ \E i \in 1..Len(parsed.metadata) :
       parsed.metadata[i].indent = 2 /\ HasColon(parsed.metadata[i].text)
  /\ \E i \in 1..Len(parsed.metadata) :
       parsed.metadata[i].indent = 0 /\ HasColon(parsed.metadata[i].text)

\* C2: the write changes only the line range of the list: the lines before the
\* first list line and after the last one are the same, in place, and the list
\* holds one line per parsed item, each item once.
C2_OnlyListRangeChanges ==
  Ran("write_md_metadata") /\ parsed.ok =>
    LET a == ListFirst(prev)
        b == ListLast(prev)
        n == Len(parsed.metadata)
    IN /\ n = b - a + 1
       /\ Len(file) = Len(prev)
       /\ SubSeq(file, 1, a - 1) = SubSeq(prev, 1, a - 1)
       /\ SubSeq(file, b + 1, Len(file)) = SubSeq(prev, b + 1, Len(prev))
       /\ err = NoErr =>
            /\ Len(emitted) = n
            /\ {emitted[k][1] : k \in 1..n} = 1..n
            /\ \A k \in 1..n :
                 LET line == file[a + k - 1]
                     item == parsed.metadata[emitted[k][1]]
                     text == Strip(SubSeq(line, Find(line, <<"*">>) + 1, Len(line)))
                 IN /\ IsListLine(line)
                    /\ LabelKey(text) = LabelKey(item.text)
                    /\ HasColon(text) = HasColon(item.text)
                    /\ HasColon(text) => ValueOf(text) = ValueOf(item.text)

C2_Witness ==
  /\ WriteDone /\ wrote /\ Len(parsed.metadata) >= 2
  /\ ListLast(prev) < Len(prev)
  /\ \E k \in 1..Len(emitted) : emitted[k][1] # k

\* C3: writing twice changes nothing the second time.
C3_WriterIdempotent ==
  (Len(ops) = 2 /\ WriteDone /\ ops[1] = "write_md_metadata") => file = prev

\* C4: an item with indentation k > 0 hangs under the nearest preceding item of
\* indentation k - 2 and its path key extends that item's key; a list line without
\* such a parent is never accepted.
C4_NestingByIndent ==
  parsed.ok =>
    \A i \in 1..Len(parsed.metadata) :
      LET item == parsed.metadata[i]
          cands == {j \in 1..(i - 1) : parsed.metadata[j].indent = item.indent - 2}
      IN item.indent > 0 =>
           /\ cands # {}
           /\ item.parent = SetMax(cands)
           /\ item.map_key = parsed.metadata[SetMax(cands)].map_key \o "/"
                               \o LabelKey(item.text)

\* C5: an odd indentation in the list block is a fatal error that names the file
\* and the line, and the document is not written.
OddLines(f) ==
  {i \in ListBlock(f) : IsListLine(f[i]) /\ LeadingSpaces(f[i]) % 2 = 1}
HeaderOk(f) ==
  /\ Len(f) >= 4 /\ StartsWith(f[1], <<"#", SP>>) /\ RStrip(f[2]) = <<>>
  /\ Strip(f[3]) # <<>>
  /\ \A i \in 3..(SummaryEnd(f) - 1) : ~StartsWith(Strip(f[i]), <<"*">>)
  /\ SummaryEnd(f) <= Len(f)

C5_OddIndentIsFatal ==
  (RanMd /\ HeaderOk(prev) /\ OddLines(prev) # {}) =>
    /\ ~parsed.ok
    /\ err.kind \in {"bad indent", "expected metadata list", "expected metadata list line"}
    /\ err.file = filename
    /\ err.no + 1 \in ListBlock(prev)
    /\ err.no + 1 <= SetMin(OddLines(prev))
    /\ err.line = RStrip(prev[err.no + 1])
    /\ (err.no + 1 = SetMin(OddLines(prev)) /\ err.no + 1 > ListFirst(prev))
         => err.kind = "bad indent"
    /\ file = prev
    /\ ~wrote

C5_Witness ==
  /\ RanMd /\ HeaderOk(prev) /\ err.kind = "bad indent"
  /\ err.no + 1 = SetMin(OddLines(prev))
  /\ err.no + 1 > ListFirst(prev)
  /\ file = prev

\* C6: the written children of every node stand in registry order, the items not
\* in the registry after the registered ones, and ties and unregistered items in
\* their original order.
C6_SortedByRegistry ==
  WriteDone =>
    \A k, l \in 1..Len(emitted) :
      LET a == parsed.metadata[emitted[k][1]]
          b == parsed.metadata[emitted[l][1]]
      IN (k < l /\ a.parent = b.parent) =>
           /\ InOrder(a, b)
           /\ (Resolved(a) /\ Resolved(b) /\ a.mapping = b.mapping)
                => a.line_no < b.line_no
           /\ (~Resolved(a) /\ ~Resolved(b)) => a.line_no < b.line_no

C6_Witness ==
  /\ WriteDone
  /\ ~InRegistryOrder(parsed.metadata)
  /\ \E ij \in Siblings(parsed.metadata) :
       /\ Resolved(parsed.metadata[ij[1]])
       /\ parsed.metadata[ij[1]].mapping = parsed.metadata[ij[2]].mapping
  /\ \E k \in 1..Len(emitted) : ~Resolved(parsed.metadata[emitted[k][1]])

\* C7: with W the clamped maximum of 4 + indentation + label length, every value
\* starts at column W when its prefix is shorter than W and after one space
\* otherwise, and the emitted indentation is the item's indentation.
C7_ValueColumn ==
  WriteDone =>
    \A k \in 1..Len(emitted) :
      LET item == parsed.metadata[emitted[k][1]]
          line == file[ListFirst(prev) + k - 1]
          W == TargetWidth(parsed.metadata)
          lhs == SubSeq(line, 1, Find(line, ColonSp) + 1)
          rest == SubSeq(line, Find(line, ColonSp) + 2, Len(line))
      IN HasColon(item.text) =>
           /\ LeadingSpaces(line) = item.indent
           /\ LStrip(rest) = ValueOf(item.text) \o <<NL>>
           /\ TextLen(lhs) < W => TextLen(lhs) + LeadingSpaces(rest) = W
           /\ TextLen(lhs) >= W => LeadingSpaces(rest) = 0

----------------------------------------------------------------------------
(* Properties of the generated parts *)

\* The lines outside the generated regions, markers included, and the regions
\* (the lines after a marker through the next end marker), read off a text.
RECURSIVE OutsideLines(_, _, _)
OutsideLines(f, i, inside) ==
  IF i > Len(f) THEN <<>>
  ELSE IF inside THEN OutsideLines(f, i + 1, ~IsEndMarker(f[i]))
  ELSE <<f[i]>> \o OutsideLines(f, i + 1, IsMarker(f[i]))

RECURSIVE Regions(_, _, _)
Regions(f, i, open) ==
  IF i > Len(f) THEN <<>>
  ELSE IF open # <<>>
       THEN IF IsEndMarker(f[i])
            THEN << [snippet |-> open[1], lines |-> Append(open[2], f[i])] >>
                 \o Regions(f, i + 1, <<>>)
            ELSE Regions(f, i + 1, <<open[1], Append(open[2], f[i])>>)
       ELSE Regions(f, i + 1, IF IsMarker(f[i]) THEN <<SnippetOf(f[i]), <<>>>> ELSE <<>>)

\* Two lines that differ at most in the badge markup they carry.
SameButBadges(a, b) ==
  /\ Len(a) = Len(b)
  /\ \A k \in 1..Len(a) : a[k] = b[k] \/ (a[k] \in ShieldsBlocks /\ b[k] \in ShieldsBlocks)

\* What a region holds: header row, separator row, one row per record rendered,
\* and an end marker that counts the rows.
HeaderOf(snippet) ==
  IF snippet = AllRows THEN "| Engine | Language |" ELSE "| Engine | LOC | Standard |"
SeparatorOf(snippet) == IF snippet = AllRows THEN "|---|---|" ELSE "|---|---|---|"
RecordsOf(snippet) ==
  IF snippet = AllRows THEN Len(data)
  ELSE Cardinality({i \in 1..Len(data) : data[i].loc # 0})

RegionRendered(r) ==
  LET n == Len(r.lines) - 3
  IN /\ n >= 0
     /\ r.lines[1] = TextLine(HeaderOf(r.snippet))
     /\ r.lines[2] = TextLine(SeparatorOf(r.snippet))
     /\ \A k \in 3..(n + 2) :
          /\ Len(r.lines[k]) = 2
          /\ r.lines[k][2] = NL
          /\ ~IsEndMarker(r.lines[k]) /\ ~IsMarker(r.lines[k])
     /\ r.lines[n + 3] = EndMarker(n)
     /\ n = RecordsOf(r.snippet)

RegionsRendered ==
  /\ Len(Regions(file, 1, <<>>)) = Len(Regions(prev, 1, <<>>))
  /\ \A k \in 1..Len(Regions(file, 1, <<>>)) :
       /\ Regions(file, 1, <<>>)[k].snippet = Regions(prev, 1, <<>>)[k].snippet
       /\ RegionRendered(Regions(file, 1, <<>>)[k])

\* C8 as stated: update_tables leaves every line outside the generated regions as
\* it was, markers included, and fills every region with header, separator, one
\* row per record and an end marker counting the rows.
C8_OutsideUnchanged ==
  (Ran("update_tables") /\ err = NoErr) =>
    /\ OutsideLines(file, 1, FALSE) = OutsideLines(prev, 1, FALSE)
    /\ RegionsRendered

\* C8 amended: the lines outside the regions stay in place and in order, a line
\* changing at most in the badge markup that follows a repository URL (the table
\* update refreshes the badges first); markers stay, regions are rendered as stated.
C8_OutsideUnchangedButBadges ==
  (Ran("update_tables") /\ err = NoErr) =>
    LET old == OutsideLines(prev, 1, FALSE)
        new == OutsideLines(file, 1, FALSE)
    IN /\ Len(new) = Len(old)
       /\ \A k \in 1..Len(old) :
            /\ SameButBadges(old[k], new[k])
            /\ IsMarker(old[k]) => new[k] = old[k]
       /\ RegionsRendered

C8_Witness ==
  /\ Ran("update_tables") /\ err = NoErr /\ wrote
  /\ Len(Regions(file, 1, <<>>)) >= 1
  /\ Len(Regions(file, 1, <<>>)[1].lines) > 3
  /\ Regions(file, 1, <<>>)[1].lines # Regions(prev, 1, <<>>)[1].lines
  /\ OutsideLines(file, 1, FALSE) # OutsideLines(prev, 1, FALSE)

\* A marker with no end marker anywhere after it.
Unterminated(f) ==
  \E i \in 1..Len(f) : IsMarker(f[i]) /\ \A j \in (i + 1)..Len(f) : ~IsEndMarker(f[j])

C10_RenderersIdempotent ==
  (Len(ops) = 2 /\ ops[1] = ops[2]
     /\ ops[2] \in {"update_tables", "update_md_shields", "update_conformance"})
    => (file = prev /\ ~wrote)

\* The '## Conformance' line of a text (0 if it has none), the next line after it
\* that starts with '#', and the text with its last line terminated.
IsConformanceHeading(line) == RStrip(line) = RStrip(ConformanceHeading)
HeadingAt(f) ==
  LET S == {i \in 1..Len(f) : IsConformanceHeading(f[i])}
  IN IF S = {} THEN 0 ELSE SetMin(S)
NextHash(f, h) ==
  LET S == {i \in (h + 1)..Len(f) : StartsWith(f[i], <<"#">>)}
  IN IF S = {} THEN Len(f) + 1 ELSE SetMin(S)
Terminated(f) ==
  IF f # <<>> /\ ~EndsLine(f[Len(f)])
  THEN SubSeq(f, 1, Len(f) - 1) \o << f[Len(f)] \o <<NL>> >>
  ELSE f

\* C13: update_conformance replaces exactly the lines from the '## Conformance'
\* heading up to the next line that starts with '#' and keeps the lines before
\* and from that line on; without a '## Conformance' line it keeps all lines and
\* appends the block after them.
C13_OnlySectionReplaced ==
  Ran("update_conformance") /\ err = NoErr =>
    LET block == ConformanceLines(conformance[1])
        h == HeadingAt(prev)
    IN IF h > 0
       THEN file = SubSeq(prev, 1, h - 1) \o block
                   \o SubSeq(prev, NextHash(prev, h), Len(prev))
       ELSE file \in {Terminated(prev) \o block, Terminated(prev) \o << <<NL>> >> \o block}

\* The rows of data in the order format_table_columns returns them.
SortedData ==
  LET keyed == SortRows([i \in 1..Len(data) |->
                           [row |-> data[i], sort_key |-> sort_key(data[i])]], <<>>)
  IN [i \in 1..Len(keyed) |-> keyed[i].row]
IsPinned(row) == \E k \in 1..Len(pinned) : pinned[k] = row.id
PinnedIndex(row) == CHOOSE k \in 1..Len(pinned) : pinned[k] = row.id
\* The language up to the first ', ', with TypeScript as JavaScript and C++ as C.
Family(row) ==
  LET lang == LanguageAbbr(row.language)
  IN IF lang = <<"T", "y", "p", "e", "S", "c", "r", "i", "p", "t">>
     THEN <<"J", "a", "v", "a", "S", "c", "r", "i", "p", "t">>
     ELSE IF lang = <<"C", "+", "+">> THEN <<"C">> ELSE lang
\* (family, descending stars, lower-cased id) of a is not after that of b
TupleLeq(a, b) ==
  \/ StrLess(Family(a), Family(b))
  \/ /\ Family(a) = Family(b)
     /\ \/ a.github_stars > b.github_stars
        \/ /\ a.github_stars = b.github_stars
           /\ ~StrLess(Lower(b.id), Lower(a.id))

\* C16: format_table_columns puts v8, spidermonkey, jsc first, in that order, ahead
\* of every other record, and orders the others by (language family, descending
\* stars, lower-cased id), for every language, the empty one included.
C16_PinnedFirstThenByFamily ==
  Ran("update_tables") =>
    /\ FormatTableColumns(filename, data)
         = [i \in 1..Len(data) |-> FormatRow(SortedData[i], filename)]
    /\ \A i, j \in 1..Len(data) :
         i < j =>
           LET a == SortedData[i]
               b == SortedData[j]
           IN /\ IsPinned(b) => IsPinned(a) /\ PinnedIndex(a) < PinnedIndex(b)
              /\ ~IsPinned(a) /\ ~IsPinned(b) => TupleLeq(a, b)

----------------------------------------------------------------------------
(* Properties of the scores and of the conformance report *)

\* The directories of a results file, and a directory's pass weight, total weight
\* and failing lines, read off the lines.
Dirs(tests) == {tests[i].dir : i \in 1..Len(tests)}
RECURSIVE WeightOf(_, _, _)
WeightOf(tests, dirs, passed) ==
  IF tests = <<>> THEN 0
  ELSE (IF Head(tests).dir \in dirs /\ (Head(tests).result = "OK" \/ ~passed)
        THEN Head(tests).weight * Head(tests).count ELSE 0)
       + WeightOf(Tail(tests), dirs, passed)
FailingIn(tests, dir) ==
  SelectSeq(tests, LAMBDA t : t.dir = dir /\ t.result # "OK")
Stored(dir) == DictGet(conformance[1].conformance_scores, dir, -1)
Scored == conformance # <<>>

\* C11: the stored score of a category is round(P / T, 4), and a category whose
\* stored score is exactly 1 has no failing test, so that the assertion of
\* update_conformance on a score of 1 never fails.
C11_FullScoreHasNoFailure ==
  Scored =>
    /\ \A d \in Dirs(results) :
         /\ Stored(d) = Round4(WeightOf(results, {d}, TRUE), WeightOf(results, {d}, FALSE))
         /\ Stored(d) = ScoreOne => FailingIn(results, d) = <<>>
    /\ ~(Ran("update_conformance") /\ err.kind = "AssertionError")

\* What is displayed for a category or a group, and the directories of a group.
Displayed(name) == FormatScore(Stored(name))
Shown == {n \in {"es1", "es3", "es5", "kangax-es6", "es1-es5"} :
            DictHas(conformance[1].conformance_scores, n)}
Members(name) == IF name = "es1-es5" THEN EsDirs ELSE {name}
Reported == Scored /\ Ran("update_conformance") /\ err = NoErr

\* C12: the displayed percentage is the score rounded down, floor(100 * s) for a
\* score s below 1, and '100%' is displayed only when every test of the category
\* or group passed.
C12_PercentRoundedDown ==
  Reported =>
    \A n \in Shown :
      /\ Stored(n) < ScoreOne => Displayed(n) = ToString(Stored(n) \div 100) \o "%"
      /\ Displayed(n) = "100%" =>
           WeightOf(results, Members(n), TRUE) = WeightOf(results, Members(n), FALSE)

\* The item of a category as the three forms describe it, from the results file.
ShownDirs == Dirs(results) \cap {"es1", "es3", "es5", "kangax-es6"}
CrashText(dir) ==
  LET n == Len(SelectSeq(FailingIn(results, dir), LAMBDA t : IsCrash(t.result)))
  IN IF n = 0 THEN ""
     ELSE IF n = 1 THEN ", <b>1 crash</b>"
     ELSE ", <b>" \o ToString(n) \o " crashes</b>"
LinkLine(t) ==
  TextLine("<a href=\"../conformance/" \o t.dir \o "/" \o t.base \o "\">" \o t.base
           \o "</a>: " \o HtmlEscape(t.result))
ItemForm(dir) ==
  LET head == "<li>" \o DisplayName(dir) \o ": " \o Displayed(dir)
      failing == FailingIn(results, dir)
      n == Len(failing)
  IN IF Stored(dir) = ScoreOne THEN << TextLine(head \o "</li>") >>
     ELSE IF 2 * Stored(dir) < ScoreOne
     THEN << TextLine(head \o CrashText(dir) \o "</li>") >>
     ELSE << TextLine(head \o CrashText(dir) \o "<pre>") >>
          \o [i \in 1..Min2(n, FailLimit + 1) |-> LinkLine(failing[i])]
          \o (IF n > FailLimit + 1 THEN << TextLine("...") >> ELSE <<>>)
          \o << TextLine("</pre></li>") >>

\* C17: in the written report the item of a category has one of three forms: the
\* percentage alone for a score of 1; percentage and crash count for a score below
\* 0.5; otherwise percentage, crash count and the list of failing tests, min(n, 21)
\* links and then one '...' line exactly when n > 21.
C17_ItemForms ==
  Reported =>
    /\ Contains(file, ConformanceLines(conformance[1]))
    /\ \A d \in ShownDirs :
         /\ DirLines(conformance[1], d) = ItemForm(d)
         /\ Contains(file, ItemForm(d))

\* A report with a capped list, next to a category below one half with a crash.
C17_Witness ==
  /\ Reported
  /\ \E d \in ShownDirs :
       /\ 2 * Stored(d) >= ScoreOne
       /\ Stored(d) < ScoreOne
       /\ Len(FailingIn(results, d)) > FailLimit + 1
  /\ \E d \in ShownDirs : 2 * Stored(d) < ScoreOne /\ CrashText(d) # ""

----------------------------------------------------------------------------
(* Properties of the rows of do_engine_data *)

Returned == Ran("do_engine_data") /\ err = NoErr
Range(seq) == {seq[i] : i \in 1..Len(seq)}
IsVariant(md) == Contains(md.name, <<"_">>)
EngineOf(md) == Cat(SubSeq(md.name, 1, Find(md.name, <<"_">>) - 1))
VariantOf(md) == Cat(SubSeq(md.name, Find(md.name, <<"_">>) + 1, Len(md.name)))
VariantMds == {md \in Range(checkout.mds) : IsVariant(md)}
\* The metadata of a markdown file: the json keys its list sets, with their values.
MetadataOf(md) == ProcessItems(<<>>, ParseMdMetadata(md.file, "").metadata)
\* The entries of the benchmark list of the output row id that come from name.
RowsOf(id) == {r \in Range(engines_data) : DictGet(r, "id", "") = id}
FoldedEntries(id, name) ==
  UNION {{e \in Range(DictGet(r, "bench", <<>>)) : DictGet(e, "id", "") = name} :
           r \in RowsOf(id)}
NoVariantRows ==
  \A r \in Range(engines_data) :
    /\ ~DictHas(r, "variant")
    /\ \A md \in VariantMds : DictGet(r, "id", "") # Cat(md.name)

\* C14: a parsed row engine_variant is absent from the output, its metadata is in
\* the benchmark list of the parent row as the entry built for <arch>/<engine>/
\* <variant>, and no output row has an identifier with a variant suffix.
C14_VariantFoldedIntoParent ==
  Returned =>
    /\ NoVariantRows
    /\ \A md \in VariantMds :
         \E e \in FoldedEntries(EngineOf(md), Cat(md.name)) :
           \A i \in 1..Len(MetadataOf(md)) :
             DictGet(e, MetadataOf(md)[i][1], "") = MetadataOf(md)[i][2]

\* The dist files that make do_engine_data fold the variant into its parent.
FoldingDist(md) ==
  {f \in Range(checkout.dist) :
     /\ DictGet(f.json, "engine", "") = EngineOf(md)
     /\ DictGet(f.json, "variant", "") = VariantOf(md)
     /\ VariantOf(md) \notin {"full", "intl"}
     /\ \E i \in 1..Len(f.json) : f.json[i][1] \notin {"arch", "variant", "engine"}}

\* C14, as the code has it: variant rows are never in the output; a variant is
\* folded into the parent row once for each dist file of its engine and variant
\* (not full or intl, with a key besides arch, variant and engine), provided the
\* parent has a markdown file; the entry holds the variant's metadata, overridden
\* by the keys of the dist file, without the values that repeat the parent's; a
\* variant without such a dist file or without a parent appears nowhere.
C14_VariantFoldedWithDist ==
  Returned =>
    /\ NoVariantRows
    /\ \A md \in VariantMds :
         LET entries == FoldedEntries(EngineOf(md), Cat(md.name))
             parent == CHOOSE r \in RowsOf(EngineOf(md)) : TRUE
         IN IF RowsOf(EngineOf(md)) = {} \/ FoldingDist(md) = {}
            THEN \A r \in Range(engines_data) :
                   \A e \in Range(DictGet(r, "bench", <<>>)) :
                     DictGet(e, "id", "") # Cat(md.name)
            ELSE /\ Cardinality(entries) = Cardinality(FoldingDist(md))
                 /\ \A f \in FoldingDist(md) :
                      \E e \in entries :
                        /\ DictGet(e, "binary_size", 0) = DictGet(f.json, "binary_size", 0)
                        /\ ~DictHas(e, "title") /\ ~DictHas(e, "engine")
                        /\ \A i \in 1..Len(MetadataOf(md)) :
                             LET k == MetadataOf(md)[i][1]
                                 v == DictGet(f.json, k, MetadataOf(md)[i][2])
                             IN IF DictHas(parent, k) /\ DictGet(parent, k, "") = v
                                THEN ~DictHas(e, k)
                                ELSE DictGet(e, k, "") = v

\* A variant folded into its parent with a licence that differs from the parent's.
C14_Witness ==
  /\ Returned
  /\ \E md \in VariantMds :
       /\ FoldingDist(md) # {}
       /\ \E e \in FoldedEntries(EngineOf(md), Cat(md.name)) :
            /\ DictGet(e, "license", "") = "GPL"
            /\ DictGet(e, "binary_size", 0) = 200

\* Twice the statistical median of a series: the middle element of the sorted
\* series, or the mean of the two middle elements.
TwiceMedian(scores) ==
  LET sorted == SortInts(scores)
      n == Len(scores)
  IN IF n % 2 = 1 THEN 2 * sorted[(n + 1) \div 2]
     ELSE sorted[n \div 2] + sorted[(n \div 2) + 1]
\* The bench files that reach the output, and the entry made from one.
UsedBench ==
  {f \in Range(checkout.bench) : RowsOf(DictGet(f.json.metadata, "engine", "")) # {}}
EntriesOf(f) ==
  UNION {{e \in Range(DictGet(r, "bench", <<>>)) :
            DictGet(e, "variant", "") = DictGet(f.json.metadata, "variant", "")} :
           r \in RowsOf(DictGet(f.json.metadata, "engine", ""))}

\* C15: the value reported for a benchmark is the statistical median of its
\* scores, the middle element for an odd and the mean of the two middle elements
\* for an even number of scores; an entry with an error and no scores records
\* '<name>_error' and no score.
C15_ReportedIsMedian ==
  Returned =>
    \A f \in UsedBench :
      /\ EntriesOf(f) # {}
      /\ \A e \in EntriesOf(f) :
           \A i \in 1..Len(f.json.benchmarks) :
             LET col == f.json.benchmarks[i][1]
                 b == f.json.benchmarks[i][2]
                 scores == DictGet(b, "score", <<>>)
             IN /\ scores # <<>> =>
                     /\ 2 * DictGet(e, col, -1) = TwiceMedian(scores)
                     /\ 2 * DictGet(e, col \o "_detailed", <<>>).median = TwiceMedian(scores)
                /\ scores = <<>> /\ DictHas(b, "error") =>
                     /\ DictGet(e, col \o "_error", "") = DictGet(b, "error", "")
                     /\ ~DictHas(e, col)

\* The items of a markdown file that set the json key k, in document order.
SettingIn(metadata, k) ==
  SelectSeq(metadata,
            LAMBDA item : /\ item.mapping # -1
                          /\ HasColon(item.text)
                          /\ MDMappings[item.mapping + 1].json_key = k)
Setting(md, k) == SettingIn(ParseMdMetadata(md.file, "").metadata, k)
OutputMds == {md \in Range(checkout.mds) : RowsOf(Cat(md.name)) # {}}
TwoSynonyms(md) ==
  /\ Len(Setting(md, "ancestors")) = 2
  /\ Setting(md, "ancestors")[1].mapping # Setting(md, "ancestors")[2].mapping

\* C18: when a document has two registry synonyms of one output key with
\* different values, the row holds the value of the synonym declared later in the
\* Field Registry, whatever the order of the two lines in the document.
C18_LaterRegistryEntryWins ==
  Returned =>
    \A md \in OutputMds :
      TwoSynonyms(md) =>
        LET items == Setting(md, "ancestors")
            later == IF items[1].mapping > items[2].mapping THEN items[1] ELSE items[2]
        IN \A r \in RowsOf(Cat(md.name)) : DictGet(r, "ancestors", "") = SimplifiedValue(later)

\* C18, as the code has it: the row holds, for every output key, the value of the
\* line that comes last in the document among the lines that set the key.
C18_LaterLineWins ==
  Returned =>
    \A md \in OutputMds :
      \E metadata \in {ParseMdMetadata(md.file, "").metadata} :
        \A r \in RowsOf(Cat(md.name)) :
          \A i \in 1..Len(MDMappings) :
            LET items == SettingIn(metadata, MDMappings[i].json_key)
            IN IF items = <<>> THEN ~DictHas(r, MDMappings[i].json_key)
               ELSE DictGet(r, MDMappings[i].json_key, "")
                      = SimplifiedValue(items[Len(items)])

\* A row made from a document that has 'Ancestors' before 'Ancestor'.
C18_Witness ==
  /\ Returned
  /\ \E md \in OutputMds :
       /\ TwoSynonyms(md)
       /\ Setting(md, "ancestors")[1].mapping > Setting(md, "ancestors")[2].mapping
       /\ \A r \in RowsOf(Cat(md.name)) : DictGet(r, "ancestors", "") = "a"

====
